---- MODULE Spec2Model ----
(***************************************************************************)
(* git-llm-tool: the rate limiter / retry controller, the map-reduce       *)
(* orchestrator of LangChainProvider and the smart chunker.                *)
(*                                                                         *)
(* Time is counted in quarter seconds (rate_limit_delay 0.5 s = 2).        *)
(* An error is modelled by the set of indicator phrases its lower-cased    *)
(* message contains, which is all the classification of rate_limiter.py    *)
(* looks at.                                                               *)
(***************************************************************************)
EXTENDS Integers, Sequences, FiniteSets, TLC

VARIABLES
    \* ---- retry_with_backoff, one caller (SpecRetry)
    rt_max_retries,     \* config.max_retries of this run
    rt_attempt,         \* loop variable `attempt`
    rt_last_exception,  \* local `last_exception`
    rt_log,             \* outcomes of the invocations of func, in order
    rt_sleeps,          \* backoff sleeps: <<[base, slept]>>
    rt_status,          \* "running" | "returned" | "raised_original" | "raised_api_error"
    rt_raised,          \* what the raised exception carries
    rt_now,             \* time.time()
    rt_last_request_time,
    \* ---- one RateLimiter shared by the map workers (SpecRate)
    rl_now,                \* time.time()
    rl_last_request_time,  \* RateLimiter.last_request_time
    rl_pc,                 \* per worker: where it is in wait_if_needed
    rl_current_time,       \* per worker: local `current_time`
    rl_wake,               \* per worker: when its time.sleep ends
    rl_left,               \* per worker: calls it still has to make
    rl_dispatched,         \* the times at which func was called, in order
    \* ---- one map-reduce operation of LangChainProvider (Spec)
    n_docs,                      \* len(docs)
    ollama,                      \* self.ollama_llm is not None
    max_parallel_chunks,         \* config.llm.max_parallel_chunks
    ollama_max_parallel_chunks,  \* config.llm.ollama_max_parallel_chunks
    mr_max_retries,              \* rate_limiter.config.max_retries
    pc,                          \* where the calling thread is
    max_workers,                 \* ThreadPoolExecutor(max_workers=...)
    queue,                       \* the executor's work queue: chunk indices, 1-based
    task,                        \* per chunk: state of its future
    attempt_of,                  \* per chunk: `attempt` of its retry_with_backoff
    fut,                         \* per chunk: what process_chunk returned
    summaries,                   \* the pre-allocated list of the parallel pass
    finished_order,              \* the chunks in the order their futures finished
    seq_i,                       \* loop index of the sequential pass, 1-based
    seq_summaries,               \* `summaries` of the sequential pass
    main_attempt,                \* `attempt` of the calling thread's retry_with_backoff
    reduce_input,                \* summaries joined into combined_summary, by Part number
    result,                      \* what the operation returned
    map_units,                   \* per chunk: retry_with_backoff(_make_map_call) calls issued
    map_targets,                 \* models the map calls were sent to
    reduce_units,                \* retry_with_backoff(_make_combine_call) calls issued
    reduce_targets,              \* models the reduce calls were sent to
    map_ok,                      \* per chunk: some map invocation returned
    map_failed,                  \* per chunk: some map invocation raised
    reduce_failed,               \* a reduce unit of work raised
    called_after,                \* a completion call was made after a reduce unit raised
    \* ---- SmartChunker.chunk_diff (SpecChunk)
    diff,               \* diff.split('\n'): lines as [kind, len]
    chunk_size,         \* SmartChunker.chunk_size, in tokens
    chunk_overlap,      \* SmartChunker.chunk_overlap, in tokens
    chars_per_token,    \* width of the tokenizer's tokens, in characters
    ck_pc,              \* "unused" | "ready" | "done"
    chunks,             \* the list returned by chunk_diff
    \* ---- DiffOptimizer.optimize_diff (SpecOptimize)
    raw,                \* the diff handed in: lines as [kind, len]
    aggressive,         \* argument `aggressive`
    max_context_lines,  \* DiffOptimizer.max_context_lines
    op_pc,              \* "unused" | "ready" | "done"
    optimized,          \* optimized_lines: [kind, len, from, src, omitted]
    diff_stats,         \* DiffStats: files_processed, lines_removed, sizes
    \* ---- LangChainProvider.generate_commit_message (SpecGenerate)
    chunking_threshold, \* config.llm.chunking_threshold
    max_tokens,         \* config.llm._max_tokens
    gen_pc,             \* "unused" | "start" | "decide" | "direct" | "single" | "map_reduce"
    will_chunk,         \* local `will_chunk`
    chunker_calls,      \* calls of smart_chunker.chunk_diff
    direct_units,       \* retry_with_backoff units issued on self.llm with a commit prompt
    direct_target,      \* the model those units invoke
    direct_prompt,      \* what the commit prompt was built from
    handed_docs,        \* len(docs) handed to _manual_map_reduce
    \* ---- TokenCounter.truncate_to_tokens, split_by_tokens (SpecTokens)
    tc_text,            \* argument `text`: its characters, numbered from 1
    tc_width,           \* width of the encoding's tokens, in characters
    tc_encodable,       \* FALSE: encoding.encode raises for this text
    tc_max_tokens,      \* argument `max_tokens`
    tc_overlap,         \* argument `overlap`
    tc_pc,              \* "unused" | "ready" | "truncated" | "retruncated" | "loop" | "returned"
    tc_start,           \* local `start` of split_by_tokens
    tc_iter,            \* iterations of the while loop made so far, modulo 2
    tc_chunks,          \* local `chunks` of split_by_tokens, returned at the end
    tc_truncated,       \* what truncate_to_tokens returned
    \* ---- ConfigLoader (SpecLoad, SpecConfig)
    global_file,        \* ~/.git-llm-tool/config.yaml: [exists, data]
    project_file,       \* .git-llm-tool.yaml: [exists, data]
    env,                \* os.environ: variable -> value, "" when not set
    cf_pc,              \* "unused" | "ready" | "loaded" | "raised"
    app_config,         \* ConfigLoader._config
    cf_calls,           \* set_value / get_value calls made so far
    last_set,           \* per key: the value set_value gave it last, "" if none or replaced since
    got                 \* the latest get_value call: [key, outcome]

rtVars == <<rt_max_retries, rt_attempt, rt_last_exception, rt_log, rt_sleeps,
            rt_status, rt_raised, rt_now, rt_last_request_time>>

rlVars == <<rl_now, rl_last_request_time, rl_pc, rl_current_time, rl_wake, rl_left,
            rl_dispatched>>

mrVars == <<n_docs, ollama, max_parallel_chunks, ollama_max_parallel_chunks,
            mr_max_retries, pc, max_workers, queue, task, attempt_of, fut, summaries,
            finished_order, seq_i, seq_summaries, main_attempt, reduce_input, result,
            map_units, map_targets, reduce_units, reduce_targets, map_ok, map_failed,
            reduce_failed, called_after>>

ckVars == <<diff, chunk_size, chunk_overlap, chars_per_token, ck_pc, chunks>>

opVars == <<raw, aggressive, max_context_lines, op_pc, optimized, diff_stats>>

gnVars == <<chunking_threshold, max_tokens, gen_pc, will_chunk, chunker_calls,
            direct_units, direct_target, direct_prompt, handed_docs>>

tkVars == <<tc_text, tc_width, tc_encodable, tc_max_tokens, tc_overlap, tc_pc, tc_start, tc_iter, tc_chunks,
            tc_truncated>>

cfVars == <<global_file, project_file, env, cf_pc, app_config, cf_calls, last_set, got>>

vars == <<rtVars, rlVars, mrVars, ckVars, opVars, gnVars, tkVars, cfVars>>

-----------------------------------------------------------------------------
(* Bounds of the model *)

MaxRetries == 5

\* SpecRate: worker threads, calls per worker, clock range
RateWorkers == 2

RateCalls == 2

RateMaxTime == 7

\* Spec: chunks of the batch, configured parallelism, max_retries
MaxChunks == 3

MaxParallel == 3

MRMaxRetries == 2

(* RateLimitConfig defaults, in quarter seconds *)

initial_delay == 4

max_delay == 240

backoff_multiplier == 2

rate_limit_delay == 2

\* last_exception = None
NoError == [ok |-> TRUE, msg |-> {}, n |-> 0]

\* the n-th invocation of func returned / raised an error with message m
Returned(n) == [ok |-> TRUE, msg |-> {}, n |-> n]

Raised(m, n) == [ok |-> FALSE, msg |-> m, n |-> n]

-----------------------------------------------------------------------------
(* rate_limiter.py: error classification *)

rate_limit_indicators ==
    {"rate limit", "too many requests", "quota exceeded", "429", "throttled",
     "rate_limit_exceeded"}

retryable_indicators ==
    {"timeout", "connection", "network", "502", "503", "504",
     "internal server error", "service unavailable", "gateway timeout"}

\* The messages the wrapped call may fail with.
ErrorMessages ==
    { {"429"},                       \* rate limited
      {"timeout"},                   \* transient
      {"rate limit", "connection"},  \* both
      {} }                           \* neither: e.g. "invalid api key"

is_rate_limit_error(e) == e.msg \cap rate_limit_indicators # {}

is_retryable_error(e) == e.msg \cap retryable_indicators # {}

\* line 74-78: the error is re-raised unchanged
RaisesOriginal_Never(e, attempt) == FALSE

RaisesOriginal(e, attempt) ==
    ~is_rate_limit_error(e) /\ attempt = 0 /\ ~is_retryable_error(e)

\* line 80-82: the loop is left after the last attempt
IsLastAttempt_Early(attempt, max_retries) == attempt = max_retries - 2

IsLastAttempt(attempt, max_retries) == attempt = max_retries - 1

\* line 60: for attempt in range(max_retries)
InRange(attempt, max_retries) == attempt < max_retries

RECURSIVE Pow(_, _)
Pow(b, n) == IF n = 0 THEN 1 ELSE b * Pow(b, n - 1)

Min(a, b) == IF a <= b THEN a ELSE b

\* line 45-48: the delay before jitter
backoff_base_Linear(attempt) ==
    Min(initial_delay * (attempt + 1), max_delay)

backoff_base(attempt) ==
    Min(initial_delay * Pow(backoff_multiplier, attempt), max_delay)

\* line 50-52: random.random() is drawn from {0, 1/2}: factor 0.5 or 0.75
JitterQuarters == {2, 3}

exponential_backoff(attempt, j) == (backoff_base(attempt) * j) \div 4

\* line 32-41, one thread: the time at which wait_if_needed returns
wait_until(now, last) ==
    IF now - last < rate_limit_delay THEN now + (rate_limit_delay - (now - last))
    ELSE now

-----------------------------------------------------------------------------
(* Each specification runs one component; the other components stay as built. *)

RetryIdle ==
    /\ rt_max_retries = 0
    /\ rt_attempt = 0
    /\ rt_last_exception = NoError
    /\ rt_log = <<>>
    /\ rt_sleeps = <<>>
    /\ rt_status = "idle"
    /\ rt_raised = NoError
    /\ rt_now = 0
    /\ rt_last_request_time = 0

RateIdle ==
    /\ rl_now = 0
    /\ rl_last_request_time = 0
    /\ rl_pc = <<>>
    /\ rl_current_time = <<>>
    /\ rl_wake = <<>>
    /\ rl_left = <<>>
    /\ rl_dispatched = <<>>

MRIdle ==
    /\ n_docs = 0
    /\ ollama = FALSE
    /\ max_parallel_chunks = 0
    /\ ollama_max_parallel_chunks = 0
    /\ mr_max_retries = 0
    /\ pc = "unused"
    /\ max_workers = 0
    /\ queue = <<>>
    /\ task = <<>>
    /\ attempt_of = <<>>
    /\ fut = <<>>
    /\ summaries = <<>>
    /\ finished_order = <<>>
    /\ seq_i = 0
    /\ seq_summaries = <<>>
    /\ main_attempt = 0
    /\ reduce_input = <<>>
    /\ result = "none"
    /\ map_units = <<>>
    /\ map_targets = {}
    /\ reduce_units = 0
    /\ reduce_targets = {}
    /\ map_ok = <<>>
    /\ map_failed = <<>>
    /\ reduce_failed = FALSE
    /\ called_after = FALSE

ChunkIdle ==
    /\ diff = <<>>
    /\ chunk_size = 0
    /\ chunk_overlap = 0
    /\ chars_per_token = 1
    /\ ck_pc = "unused"
    /\ chunks = <<>>

NoStats == [files_processed |-> 0, lines_removed |-> 0, original_size |-> 0,
            optimized_size |-> 0]

OptimizeIdle ==
    /\ raw = <<>>
    /\ aggressive = FALSE
    /\ max_context_lines = 0
    /\ op_pc = "unused"
    /\ optimized = <<>>
    /\ diff_stats = NoStats

GenerateIdle ==
    /\ chunking_threshold = 0
    /\ max_tokens = 0
    /\ gen_pc = "unused"
    /\ will_chunk = FALSE
    /\ chunker_calls = 0
    /\ direct_units = 0
    /\ direct_target = "none"
    /\ direct_prompt = "none"
    /\ handed_docs = 0

\* the text operations of TokenCounter are not in use
TokenUnused ==
    /\ tc_text = <<>>
    /\ tc_width = 1
    /\ tc_max_tokens = 0
    /\ tc_overlap = 0
    /\ tc_pc = "unused"
    /\ tc_start = 0
    /\ tc_iter = 0
    /\ tc_chunks = <<>>
    /\ tc_truncated = <<>>

TokenIdle == TokenUnused /\ tc_encodable = TRUE

EmptyDict == [k \in {} |-> ""]

NoFile == [exists |-> FALSE, data |-> EmptyDict]

ConfigIdle ==
    /\ global_file = NoFile
    /\ project_file = NoFile
    /\ env = EmptyDict
    /\ cf_pc = "unused"
    /\ app_config = EmptyDict
    /\ cf_calls = 0
    /\ last_set = EmptyDict
    /\ got = EmptyDict

-----------------------------------------------------------------------------
(* retry_with_backoff run by one caller *)

RetryInit ==
    /\ RateIdle
    /\ MRIdle
    /\ ChunkIdle
    /\ OptimizeIdle
    /\ GenerateIdle
    /\ TokenIdle
    /\ ConfigIdle
    /\ rt_max_retries \in 0..MaxRetries
    /\ rt_attempt = 0
    /\ rt_last_exception = NoError
    /\ rt_log = <<>>
    /\ rt_sleeps = <<>>
    /\ rt_status = "running"
    /\ rt_raised = NoError
    /\ rt_now = rate_limit_delay
    /\ rt_last_request_time = 0

\* line 63-66: wait_if_needed, func returns
RetryCallReturns ==
    /\ rt_status = "running"
    /\ InRange(rt_attempt, rt_max_retries)
    /\ rt_now' = wait_until(rt_now, rt_last_request_time)
    /\ rt_last_request_time' = rt_now'
    /\ rt_log' = Append(rt_log, Returned(Len(rt_log) + 1))
    /\ rt_status' = "returned"
    /\ UNCHANGED <<rt_max_retries, rt_attempt, rt_last_exception, rt_sleeps, rt_raised>>
    /\ UNCHANGED <<rlVars, mrVars, ckVars, opVars, gnVars, tkVars, cfVars>>

\* line 63-89: wait_if_needed, func raises
RetryCallRaises ==
    /\ rt_status = "running"
    /\ InRange(rt_attempt, rt_max_retries)
    /\ \E m \in ErrorMessages, j \in JitterQuarters :
        LET e == Raised(m, Len(rt_log) + 1)
            t == wait_until(rt_now, rt_last_request_time)
        IN  /\ rt_last_request_time' = t
            /\ rt_log' = Append(rt_log, e)
            /\ rt_last_exception' = e
            /\ IF RaisesOriginal(e, rt_attempt)
               THEN /\ rt_status' = "raised_original"
                    /\ rt_raised' = e
                    /\ rt_now' = t
                    /\ UNCHANGED <<rt_attempt, rt_sleeps>>
               ELSE IF IsLastAttempt(rt_attempt, rt_max_retries)
               THEN /\ rt_status' = "raised_api_error"
                    /\ rt_raised' = e
                    /\ rt_now' = t
                    /\ UNCHANGED <<rt_attempt, rt_sleeps>>
               ELSE /\ rt_sleeps' = Append(rt_sleeps,
                            [base |-> backoff_base(rt_attempt),
                             slept |-> exponential_backoff(rt_attempt, j)])
                    /\ rt_now' = t + exponential_backoff(rt_attempt, j)
                    /\ rt_attempt' = rt_attempt + 1
                    /\ UNCHANGED <<rt_status, rt_raised>>
    /\ UNCHANGED rt_max_retries
    /\ UNCHANGED <<rlVars, mrVars, ckVars, opVars, gnVars, tkVars, cfVars>>

\* line 60, 92: the loop ends without a break (range exhausted)
RetryLoopEnds ==
    /\ rt_status = "running"
    /\ ~InRange(rt_attempt, rt_max_retries)
    /\ rt_status' = "raised_api_error"
    /\ rt_raised' = rt_last_exception
    /\ UNCHANGED <<rt_max_retries, rt_attempt, rt_last_exception, rt_log, rt_sleeps,
                   rt_now, rt_last_request_time>>
    /\ UNCHANGED <<rlVars, mrVars, ckVars, opVars, gnVars, tkVars, cfVars>>

RetryNext == RetryCallReturns \/ RetryCallRaises \/ RetryLoopEnds

SpecRetry == RetryInit /\ [][RetryNext]_vars

IsError(o) == ~o.ok

RetryFinished == rt_status # "running"

\* every invocation so far failed with a rate-limit or transiently-retryable error
AllFailedRetryably ==
    \A i \in 1..Len(rt_log) :
        /\ IsError(rt_log[i])
        /\ (is_rate_limit_error(rt_log[i]) \/ is_retryable_error(rt_log[i]))

\* C9: func is never invoked more than max_retries times; when every invocation
\* failed with a rate-limit or transient error, the finished call has invoked
\* func exactly max_retries times and raised the ApiError that carries the last
\* error func raised.
C9_BoundedRetries ==
    /\ Len(rt_log) <= rt_max_retries
    /\ (RetryFinished /\ AllFailedRetryably) =>
            /\ Len(rt_log) = rt_max_retries
            /\ rt_status = "raised_api_error"
            /\ (rt_log # <<>> => rt_raised = rt_log[Len(rt_log)])

C9_Witness ==
    /\ rt_status = "raised_api_error"
    /\ rt_max_retries = 3
    /\ Len(rt_log) = 3
    /\ AllFailedRetryably
    /\ rt_raised = rt_log[3]

\* C10: when the first invocation fails with an error that is neither rate-limit
\* nor transient, the call ends at once with that very error: one invocation, no
\* backoff sleep, no retries-exhausted ApiError.
C10_FirstPermanentPropagates ==
    (/\ Len(rt_log) >= 1
     /\ IsError(rt_log[1])
     /\ ~is_rate_limit_error(rt_log[1])
     /\ ~is_retryable_error(rt_log[1]))
    => /\ rt_status = "raised_original"
       /\ rt_raised = rt_log[1]
       /\ Len(rt_log) = 1
       /\ rt_sleeps = <<>>

C10_Witness ==
    /\ rt_max_retries > 1
    /\ Len(rt_log) = 1
    /\ IsError(rt_log[1])
    /\ rt_log[1].msg = {}
    /\ rt_status = "raised_original"

IsPermanent(o) == IsError(o) /\ ~is_rate_limit_error(o) /\ ~is_retryable_error(o)

\* C11: an invocation that fails with an error that is neither rate-limit nor
\* transient, on whatever attempt, is the last invocation: the call is not
\* retried after it and no backoff sleep follows it.
C11_PermanentNeverRetried ==
    \A i \in 1..Len(rt_log) :
        IsPermanent(rt_log[i]) => (Len(rt_log) = i /\ Len(rt_sleeps) < i)

AllRateLimited ==
    \A i \in 1..Len(rt_log) : IsError(rt_log[i]) /\ is_rate_limit_error(rt_log[i])

Bases(sleeps) == [k \in 1..Len(sleeps) |-> sleeps[k].base]

\* the attempts for which the capped doubling of the delay is checked
BackoffAttempts == 8

\* C12 as stated: with max_retries = 5 a call that is rate-limited on every
\* attempt has waited with the base delays 1, 2, 4, 8, 16 s when it ends.
C12_FiveDelays ==
    (rt_status = "raised_api_error" /\ rt_max_retries = 5 /\ AllRateLimited)
        => Bases(rt_sleeps) = <<4, 8, 16, 32, 64>>

\* C12 amended: the call sleeps after every failed attempt but the last, so
\* max_retries = 5 gives the four base delays 1, 2, 4, 8 s (in quarter
\* seconds 4, 8, 16, 32), strictly increasing.  The base delay of attempt a is
\* min(initial_delay * backoff_multiplier^a, max_delay); the delay slept is
\* between half the base and the base, and never above max_delay.
C12_BackoffDelays ==
    /\ \A k \in 1..Len(rt_sleeps) :
          /\ rt_sleeps[k].base = Min(initial_delay * Pow(backoff_multiplier, k - 1), max_delay)
          /\ 2 * rt_sleeps[k].slept >= rt_sleeps[k].base
          /\ rt_sleeps[k].slept <= rt_sleeps[k].base
          /\ rt_sleeps[k].slept <= max_delay
    /\ \A a \in 0..BackoffAttempts :
          /\ backoff_base(a) <= max_delay
          /\ backoff_base(a) <= backoff_base(a + 1)
    /\ (rt_status = "raised_api_error" /\ rt_max_retries = 5 /\ AllRateLimited)
          => Bases(rt_sleeps) = <<4, 8, 16, 32>>

C12_Witness ==
    /\ rt_status = "raised_api_error"
    /\ rt_max_retries = 5
    /\ AllRateLimited
    /\ Len(rt_log) = 5
    /\ Bases(rt_sleeps) = <<4, 8, 16, 32>>

-----------------------------------------------------------------------------
(* wait_if_needed run by several workers on one RateLimiter.  The method    *)
(* takes no lock: reading the clock, reading last_request_time, sleeping    *)
(* and writing last_request_time are separate steps of each thread.         *)

Workers == 1..RateWorkers

RateInit ==
    /\ RetryIdle
    /\ MRIdle
    /\ ChunkIdle
    /\ OptimizeIdle
    /\ GenerateIdle
    /\ TokenIdle
    /\ ConfigIdle
    /\ rl_now = rate_limit_delay
    /\ rl_last_request_time = 0
    /\ rl_pc = [w \in Workers |-> "start"]
    /\ rl_current_time = [w \in Workers |-> 0]
    /\ rl_wake = [w \in Workers |-> 0]
    /\ rl_left \in [Workers -> 1..RateCalls]
    /\ rl_dispatched = <<>>

\* line 34: current_time = time.time()
WaitReadClock(w) ==
    /\ rl_pc[w] = "start"
    /\ rl_current_time' = [rl_current_time EXCEPT ![w] = rl_now]
    /\ rl_pc' = [rl_pc EXCEPT ![w] = "got_time"]
    /\ UNCHANGED <<rl_now, rl_last_request_time, rl_wake, rl_left, rl_dispatched>>
    /\ UNCHANGED <<rtVars, mrVars, ckVars, opVars, gnVars, tkVars, cfVars>>

\* line 35-39: time_since_last from the shared field, then time.sleep
WaitReadLast(w) ==
    /\ rl_pc[w] = "got_time"
    /\ LET time_since_last == rl_current_time[w] - rl_last_request_time
       IN  IF time_since_last < rate_limit_delay
           THEN /\ rl_wake' = [rl_wake EXCEPT
                                  ![w] = rl_now + (rate_limit_delay - time_since_last)]
                /\ rl_pc' = [rl_pc EXCEPT ![w] = "sleeping"]
           ELSE /\ rl_pc' = [rl_pc EXCEPT ![w] = "stamp"]
                /\ UNCHANGED rl_wake
    /\ UNCHANGED <<rl_now, rl_last_request_time, rl_current_time, rl_left, rl_dispatched>>
    /\ UNCHANGED <<rtVars, mrVars, ckVars, opVars, gnVars, tkVars, cfVars>>

\* line 39: time.sleep(sleep_time) returns
WaitWake(w) ==
    /\ rl_pc[w] = "sleeping"
    /\ rl_now >= rl_wake[w]
    /\ rl_pc' = [rl_pc EXCEPT ![w] = "stamp"]
    /\ UNCHANGED <<rl_now, rl_last_request_time, rl_current_time, rl_wake, rl_left,
                   rl_dispatched>>
    /\ UNCHANGED <<rtVars, mrVars, ckVars, opVars, gnVars, tkVars, cfVars>>

\* line 41 and 66: last_request_time = time.time(), then func is called
StampAndDispatch(w) ==
    /\ rl_pc[w] = "stamp"
    /\ rl_last_request_time' = rl_now
    /\ rl_dispatched' = Append(rl_dispatched, rl_now)
    /\ rl_left' = [rl_left EXCEPT ![w] = @ - 1]
    /\ rl_pc' = [rl_pc EXCEPT ![w] = IF rl_left[w] > 1 THEN "start" ELSE "done"]
    /\ UNCHANGED <<rl_now, rl_current_time, rl_wake>>
    /\ UNCHANGED <<rtVars, mrVars, ckVars, opVars, gnVars, tkVars, cfVars>>

\* the clock advances
Tick ==
    /\ rl_now < RateMaxTime
    /\ rl_now' = rl_now + 1
    /\ UNCHANGED <<rl_last_request_time, rl_pc, rl_current_time, rl_wake, rl_left,
                   rl_dispatched>>
    /\ UNCHANGED <<rtVars, mrVars, ckVars, opVars, gnVars, tkVars, cfVars>>

RateNext ==
    \/ Tick
    \/ \E w \in Workers :
        WaitReadClock(w) \/ WaitReadLast(w) \/ WaitWake(w) \/ StampAndDispatch(w)

SpecRate == RateInit /\ [][RateNext]_vars

\* C8: any two calls dispatched through the same RateLimiter are at least
\* rate_limit_delay apart, also with several workers in wait_if_needed.
C8_MinimumSpacing ==
    \A i, j \in 1..Len(rl_dispatched) :
        i < j => rl_dispatched[j] - rl_dispatched[i] >= rate_limit_delay

-----------------------------------------------------------------------------
(* langchain_base.py: _manual_map_reduce over len(docs) > 1 chunks.          *)
(* A summary is identified by the chunk whose map prompt produced it.        *)

Chunks == 1..n_docs

\* line 315: [""] * len(docs)
EmptySummary == [kind |-> "empty", chunk |-> 0]

\* line 340-351: the stripped response to the map prompt of chunk c
Summary(c) == [kind |-> "summary", chunk |-> c]

\* line 356: "Error processing chunk: ..."
Placeholder(c) == [kind |-> "placeholder", chunk |-> c]

\* line 327-332 and 449-454: the model a map prompt is sent to
MapTarget == IF ollama THEN "ollama" ELSE "main"

\* line 406-407 and 480-481: the model the combine prompt is sent to
ReduceTarget == "main"

\* line 359-364
WorkerCount_Unclamped ==
    IF ollama THEN ollama_max_parallel_chunks ELSE max_parallel_chunks

WorkerCount ==
    IF ollama THEN Min(ollama_max_parallel_chunks, n_docs)
    ELSE Min(max_parallel_chunks, n_docs)

\* line 470: summaries.append(summary)
SeqAppend_Front(sums, summary) == <<summary>> \o sums

SeqAppend(sums, summary) == Append(sums, summary)

\* line 443: `for i, doc in enumerate(docs)` has gone through every chunk
SeqLoopOver_Early == seq_i >= n_docs

SeqLoopOver == seq_i > n_docs

\* line 72-82: the error ends retry_with_backoff (re-raised, or attempts used up)
RetryGivesUp(e, attempt) ==
    RaisesOriginal(e, attempt) \/ IsLastAttempt(attempt, mr_max_retries)

Running == {c \in Chunks : task[c] = "running"}

\* line 368: the exit of `with ThreadPoolExecutor` is shutdown(wait=True): it
\* returns when every submitted work item has run to its end
AllFinished_NoneRunning == Running = {}

AllFinished == \A c \in Chunks : task[c] = "finished"

MRInit ==
    /\ RetryIdle
    /\ RateIdle
    /\ ChunkIdle
    /\ OptimizeIdle
    /\ GenerateIdle
    /\ TokenIdle
    /\ ConfigIdle
    /\ n_docs \in 2..MaxChunks
    /\ ollama \in BOOLEAN
    /\ max_parallel_chunks \in 1..MaxParallel
    /\ ollama_max_parallel_chunks \in 1..MaxParallel
    /\ mr_max_retries \in 1..MRMaxRetries
    /\ pc = "idle"
    /\ max_workers = 0
    /\ queue = <<>>
    /\ task = [c \in 1..n_docs |-> "new"]
    /\ attempt_of = [c \in 1..n_docs |-> 0]
    /\ fut = [c \in 1..n_docs |-> EmptySummary]
    /\ summaries = <<>>
    /\ finished_order = <<>>
    /\ seq_i = 0
    /\ seq_summaries = <<>>
    /\ main_attempt = 0
    /\ reduce_input = <<>>
    /\ result = "none"
    /\ map_units = [c \in 1..n_docs |-> 0]
    /\ map_targets = {}
    /\ reduce_units = 0
    /\ reduce_targets = {}
    /\ map_ok = [c \in 1..n_docs |-> FALSE]
    /\ map_failed = [c \in 1..n_docs |-> FALSE]
    /\ reduce_failed = FALSE
    /\ called_after = FALSE


\* line 313-368: the parallel pass pre-allocates summaries, sizes the pool and
\* enters the `with ThreadPoolExecutor` block
ParStart ==
    /\ pc = "idle"
    /\ summaries' = [c \in Chunks |-> EmptySummary]
    /\ max_workers' = WorkerCount
    /\ pc' = "par_submit"
    /\ UNCHANGED <<n_docs, ollama, max_parallel_chunks,
                   ollama_max_parallel_chunks, mr_max_retries, queue, task, attempt_of,
                   fut, finished_order, seq_i, seq_summaries, main_attempt, reduce_input,
                   result, map_units, map_targets, reduce_units, reduce_targets, map_ok,
                   map_failed, reduce_failed, called_after>>
    /\ UNCHANGED <<rtVars, rlVars, ckVars, opVars, gnVars, tkVars, cfVars>>

\* the next chunk of `enumerate(docs)` that has not been submitted
NextToSubmit == CHOOSE c \in Chunks : task[c] = "new" /\ \A d \in 1..(c - 1) : task[d] # "new"

\* line 369-373: one executor.submit of the dictionary comprehension; the
\* pool threads run what was submitted while the caller goes on submitting
ParSubmit ==
    /\ pc = "par_submit"
    /\ \E c \in Chunks : task[c] = "new"
    /\ queue' = Append(queue, NextToSubmit)
    /\ task' = [task EXCEPT ![NextToSubmit] = "queued"]
    /\ UNCHANGED <<n_docs, ollama, max_parallel_chunks,
                   ollama_max_parallel_chunks, mr_max_retries, pc, max_workers,
                   attempt_of, fut, summaries, finished_order, seq_i, seq_summaries,
                   main_attempt, reduce_input, result, map_units, map_targets,
                   reduce_units, reduce_targets, map_ok, map_failed, reduce_failed,
                   called_after>>
    /\ UNCHANGED <<rtVars, rlVars, ckVars, opVars, gnVars, tkVars, cfVars>>

\* line 376: every chunk is submitted and the argument
\* `self.config.llm.chunk_processing_timeout` of as_completed is evaluated.
\* LlmConfig (config.py:13-48) defines _chunk_processing_timeout and no
\* attribute of that name, so the read raises AttributeError inside the
\* `with ThreadPoolExecutor` block: as_completed is never called and lines
\* 377-424 (collecting the futures, the reduce of the parallel pass) never run
AsCompleted ==
    /\ pc = "par_submit"
    /\ \A c \in Chunks : task[c] # "new"
    /\ pc' = "par_abort"
    /\ UNCHANGED <<n_docs, ollama, max_parallel_chunks,
                   ollama_max_parallel_chunks, mr_max_retries, max_workers, queue, task,
                   attempt_of, fut, summaries, finished_order, seq_i, seq_summaries,
                   main_attempt, reduce_input, result, map_units, map_targets,
                   reduce_units, reduce_targets, map_ok, map_failed, reduce_failed,
                   called_after>>
    /\ UNCHANGED <<rtVars, rlVars, ckVars, opVars, gnVars, tkVars, cfVars>>

\* line 317-336: a pool thread takes the next work item and process_chunk
\* issues its rate-limited map call
WorkerTake ==
    /\ pc \in {"par_submit", "par_abort"}
    /\ queue # <<>>
    /\ Cardinality(Running) < max_workers
    /\ LET c == Head(queue)
       IN  /\ task' = [task EXCEPT ![c] = "running"]
           /\ attempt_of' = [attempt_of EXCEPT ![c] = 0]
           /\ map_units' = [map_units EXCEPT ![c] = @ + 1]
    /\ queue' = Tail(queue)
    /\ map_targets' = map_targets \cup {MapTarget}
    /\ UNCHANGED <<n_docs, ollama, max_parallel_chunks,
                   ollama_max_parallel_chunks, mr_max_retries, pc, max_workers, fut,
                   summaries, finished_order, seq_i, seq_summaries, main_attempt,
                   reduce_input, result, reduce_units, reduce_targets, map_ok,
                   map_failed, reduce_failed, called_after>>
    /\ UNCHANGED <<rtVars, rlVars, ckVars, opVars, gnVars, tkVars, cfVars>>

\* line 336-351: the map call of chunk c returns; process_chunk returns (i, summary)
WorkerCallReturns(c) ==
    /\ task[c] = "running"
    /\ fut' = [fut EXCEPT ![c] = Summary(c)]
    /\ task' = [task EXCEPT ![c] = "finished"]
    /\ attempt_of' = [attempt_of EXCEPT ![c] = 0]
    /\ finished_order' = Append(finished_order, c)
    /\ map_ok' = [map_ok EXCEPT ![c] = TRUE]
    /\ called_after' = (called_after \/ reduce_failed)
    /\ UNCHANGED <<n_docs, ollama, max_parallel_chunks,
                   ollama_max_parallel_chunks, mr_max_retries, pc, max_workers, queue,
                   summaries, seq_i, seq_summaries, main_attempt,
                   reduce_input, result, map_units, map_targets, reduce_units,
                   reduce_targets, map_failed, reduce_failed>>
    /\ UNCHANGED <<rtVars, rlVars, ckVars, opVars, gnVars, tkVars, cfVars>>

\* line 336, 353-356: the map call of chunk c raises; retry_with_backoff sleeps
\* and tries again, or gives up and process_chunk returns the placeholder
WorkerCallRaises(c) ==
    /\ task[c] = "running"
    /\ \E m \in ErrorMessages :
        LET e == Raised(m, attempt_of[c] + 1)
        IN  IF RetryGivesUp(e, attempt_of[c])
            THEN /\ fut' = [fut EXCEPT ![c] = Placeholder(c)]
                 /\ task' = [task EXCEPT ![c] = "finished"]
                 /\ attempt_of' = [attempt_of EXCEPT ![c] = 0]
                 /\ finished_order' = Append(finished_order, c)
            ELSE /\ attempt_of' = [attempt_of EXCEPT ![c] = @ + 1]
                 /\ UNCHANGED <<fut, task, finished_order>>
    /\ map_failed' = [map_failed EXCEPT ![c] = TRUE]
    /\ called_after' = (called_after \/ reduce_failed)
    /\ UNCHANGED <<n_docs, ollama, max_parallel_chunks,
                   ollama_max_parallel_chunks, mr_max_retries, pc, max_workers, queue,
                   summaries, seq_i, seq_summaries, main_attempt,
                   reduce_input, result, map_units, map_targets, reduce_units,
                   reduce_targets, map_ok, reduce_failed>>
    /\ UNCHANGED <<rtVars, rlVars, ckVars, opVars, gnVars, tkVars, cfVars>>

\* line 368, 425-428: the exception leaves the `with` block, whose exit joins
\* the pool (every submitted chunk runs to its end); `except Exception` then
\* calls _sequential_map_reduce, which reads none of the parallel pass's
\* locals: they are dropped here
ParJoinAndFallBack ==
    /\ pc = "par_abort"
    /\ AllFinished
    /\ pc' = "seq_map"
    /\ seq_i' = 1
    /\ seq_summaries' = <<>>
    /\ main_attempt' = 0
    /\ summaries' = <<>>
    /\ fut' = [c \in Chunks |-> EmptySummary]
    /\ UNCHANGED <<n_docs, ollama, max_parallel_chunks,
                   ollama_max_parallel_chunks, mr_max_retries, max_workers, queue, task,
                   attempt_of, finished_order, reduce_input, result,
                   map_units, map_targets, reduce_units, reduce_targets, map_ok,
                   map_failed, reduce_failed, called_after>>
    /\ UNCHANGED <<rtVars, rlVars, ckVars, opVars, gnVars, tkVars, cfVars>>

\* the sequential pass issues the map unit of chunk seq_i at its first attempt
SeqUnits == IF main_attempt = 0 THEN [map_units EXCEPT ![seq_i] = @ + 1] ELSE map_units

\* line 443-471: the map call of chunk seq_i returns; its summary is appended
SeqMapReturns ==
    /\ pc = "seq_map"
    /\ ~SeqLoopOver
    /\ map_units' = SeqUnits
    /\ map_targets' = map_targets \cup {MapTarget}
    /\ seq_summaries' = SeqAppend(seq_summaries, Summary(seq_i))
    /\ map_ok' = [map_ok EXCEPT ![seq_i] = TRUE]
    /\ seq_i' = seq_i + 1
    /\ main_attempt' = 0
    /\ called_after' = (called_after \/ reduce_failed)
    /\ UNCHANGED <<n_docs, ollama, max_parallel_chunks,
                   ollama_max_parallel_chunks, mr_max_retries, pc, max_workers, queue,
                   task, attempt_of, fut, summaries, finished_order, reduce_input, result,
                   reduce_units, reduce_targets, map_failed, reduce_failed>>
    /\ UNCHANGED <<rtVars, rlVars, ckVars, opVars, gnVars, tkVars, cfVars>>

\* line 458, 499-500: the map call of chunk seq_i raises; when retry_with_backoff
\* gives up the sequential pass raises ApiError
SeqMapRaises ==
    /\ pc = "seq_map"
    /\ ~SeqLoopOver
    /\ \E m \in ErrorMessages :
        LET e == Raised(m, main_attempt + 1)
        IN  IF RetryGivesUp(e, main_attempt)
            THEN /\ pc' = "failed"
                 /\ UNCHANGED main_attempt
            ELSE /\ main_attempt' = main_attempt + 1
                 /\ UNCHANGED pc
    /\ map_units' = SeqUnits
    /\ map_targets' = map_targets \cup {MapTarget}
    /\ map_failed' = [map_failed EXCEPT ![seq_i] = TRUE]
    /\ called_after' = (called_after \/ reduce_failed)
    /\ UNCHANGED <<n_docs, ollama, max_parallel_chunks,
                   ollama_max_parallel_chunks, mr_max_retries, max_workers, queue, task,
                   attempt_of, fut, summaries, finished_order, seq_i, seq_summaries,
                   reduce_input, result, reduce_units, reduce_targets, map_ok,
                   reduce_failed>>
    /\ UNCHANGED <<rtVars, rlVars, ckVars, opVars, gnVars, tkVars, cfVars>>

\* line 475-485: the loop is over; the summaries are joined as "Part i" and the
\* rate-limited combine call is issued
SeqStartReduce ==
    /\ pc = "seq_map"
    /\ SeqLoopOver
    /\ reduce_input' = seq_summaries
    /\ reduce_units' = reduce_units + 1
    /\ reduce_targets' = reduce_targets \cup {ReduceTarget}
    /\ main_attempt' = 0
    /\ pc' = "seq_reduce"
    /\ UNCHANGED <<n_docs, ollama, max_parallel_chunks,
                   ollama_max_parallel_chunks, mr_max_retries, max_workers, queue, task,
                   attempt_of, fut, summaries, finished_order, seq_i, seq_summaries, result,
                   map_units, map_targets, map_ok, map_failed, reduce_failed,
                   called_after>>
    /\ UNCHANGED <<rtVars, rlVars, ckVars, opVars, gnVars, tkVars, cfVars>>

\* line 485-497: the combine call returns
SeqReduceReturns ==
    /\ pc = "seq_reduce"
    /\ result' = "message"
    /\ pc' = "done"
    /\ called_after' = (called_after \/ reduce_failed)
    /\ UNCHANGED <<n_docs, ollama, max_parallel_chunks,
                   ollama_max_parallel_chunks, mr_max_retries, max_workers, queue, task,
                   attempt_of, fut, summaries, finished_order, seq_i, seq_summaries,
                   main_attempt, reduce_input, map_units, map_targets, reduce_units,
                   reduce_targets, map_ok, map_failed, reduce_failed>>
    /\ UNCHANGED <<rtVars, rlVars, ckVars, opVars, gnVars, tkVars, cfVars>>

\* line 485, 499-500: the combine call raises; when retry_with_backoff gives up
\* the sequential pass raises ApiError
SeqReduceRaises_ReturnsSummaries ==
    /\ pc = "seq_reduce"
    /\ \E m \in ErrorMessages :
        LET e == Raised(m, main_attempt + 1)
        IN  IF RetryGivesUp(e, main_attempt)
            THEN /\ reduce_failed' = TRUE
                 /\ pc' = "done"
                 /\ result' = "message"
                 /\ UNCHANGED main_attempt
            ELSE /\ main_attempt' = main_attempt + 1
                 /\ UNCHANGED <<reduce_failed, pc, result>>
    /\ called_after' = (called_after \/ reduce_failed)
    /\ UNCHANGED <<n_docs, ollama, max_parallel_chunks,
                   ollama_max_parallel_chunks, mr_max_retries, max_workers, queue, task,
                   attempt_of, fut, summaries, finished_order, seq_i, seq_summaries,
                   reduce_input, map_units, map_targets, reduce_units,
                   reduce_targets, map_ok, map_failed>>
    /\ UNCHANGED <<rtVars, rlVars, ckVars, opVars, gnVars, tkVars, cfVars>>

SeqReduceRaises ==
    /\ pc = "seq_reduce"
    /\ \E m \in ErrorMessages :
        LET e == Raised(m, main_attempt + 1)
        IN  IF RetryGivesUp(e, main_attempt)
            THEN /\ reduce_failed' = TRUE
                 /\ pc' = "failed"
                 /\ UNCHANGED main_attempt
            ELSE /\ main_attempt' = main_attempt + 1
                 /\ UNCHANGED <<reduce_failed, pc>>
    /\ called_after' = (called_after \/ reduce_failed)
    /\ UNCHANGED <<n_docs, ollama, max_parallel_chunks,
                   ollama_max_parallel_chunks, mr_max_retries, max_workers, queue, task,
                   attempt_of, fut, summaries, finished_order, seq_i, seq_summaries,
                   reduce_input, result, map_units, map_targets, reduce_units,
                   reduce_targets, map_ok, map_failed>>
    /\ UNCHANGED <<rtVars, rlVars, ckVars, opVars, gnVars, tkVars, cfVars>>

Next ==
    \/ ParStart
    \/ ParSubmit
    \/ AsCompleted
    \/ WorkerTake
    \/ \E c \in Chunks : WorkerCallReturns(c)
    \/ \E c \in Chunks : WorkerCallRaises(c)
    \/ ParJoinAndFallBack
    \/ SeqMapReturns
    \/ SeqMapRaises
    \/ SeqStartReduce
    \/ SeqReduceReturns
    \/ SeqReduceRaises

Spec == MRInit /\ [][Next]_vars

Terminated == pc \in {"done", "failed"}

\* C1: whatever the completion order of the map calls, the text handed to the
\* reduce call labels as Part k the summary or placeholder of chunk k.
C1_PartsInChunkOrder ==
    reduce_units > 0 =>
        /\ Len(reduce_input) = n_docs
        /\ \A k \in Chunks :
            /\ reduce_input[k].chunk = k
            /\ reduce_input[k].kind \in {"summary", "placeholder"}

\* three chunks on more than one worker, the map call of the third finished
\* first and that of the first last; the reduce call has their summaries
C1_Witness ==
    /\ pc = "seq_reduce"
    /\ max_workers > 1
    /\ finished_order = <<3, 2, 1>>
    /\ reduce_input = <<Summary(1), Summary(2), Summary(3)>>

\* exactly chunk f failed on every attempt, every other chunk's map calls returned
OnlyChunkFails(f) ==
    /\ map_failed[f] /\ ~map_ok[f]
    /\ \A c \in Chunks \ {f} : map_ok[c] /\ ~map_failed[c]

\* C2: when exactly one chunk's map call fails on every attempt and all other map
\* calls succeed (and the combine call does not fail), the
\* operation returns a message and the reduce input holds the placeholder in the
\* failed chunk's position and the real summaries elsewhere.
C2_DegradedSuccess ==
    \A f \in Chunks :
        (Terminated /\ OnlyChunkFails(f) /\ ~reduce_failed) =>
            /\ pc = "done"
            /\ result = "message"
            /\ reduce_input = [c \in Chunks |-> IF c = f THEN Placeholder(c) ELSE Summary(c)]

\* C3: once a reduce unit of work has failed, no completion call follows and
\* the operation returns no message.
C3_ReduceFailureIsFatal ==
    reduce_failed => (~called_after /\ result = "none" /\ pc # "done")

\* the combine call raised a rate-limit error on every attempt of
\* retry_with_backoff; the operation failed after its one reduce unit
C3_Witness ==
    /\ reduce_failed
    /\ pc = "failed"
    /\ mr_max_retries > 1
    /\ main_attempt = mr_max_retries - 1
    /\ reduce_units = 1
    /\ reduce_input = [c \in Chunks |-> Summary(c)]

\* C4: an operation issues exactly one reduce unit of work, on the main model.
C4_SingleReduce ==
    /\ reduce_units <= 1
    /\ reduce_targets \subseteq {"main"}
    /\ Terminated => reduce_units = 1

\* C5: every chunk's map unit of work is issued exactly once in an operation.
C5_EachChunkMappedOnce ==
    /\ \A c \in Chunks : map_units[c] <= 1
    /\ Terminated => \A c \in Chunks : map_units[c] = 1

-----------------------------------------------------------------------------
(* smart_chunker.py: SmartChunker.chunk_diff.                                *)
(* A diff is the list diff.split('\n').  A line is [kind, len]: kind "file"  *)
(* starts with 'diff --git', kind "hunk" starts with '@@', kind "text" is    *)
(* any other line; len is its length in characters.  The tokenizer cuts a    *)
(* text into tokens of chars_per_token characters, the last one shorter;     *)
(* with tc_encodable FALSE encoding.encode raises on the texts it is given.  *)
(* A chunk's content is a list of entries [i, src]: i is the position of the *)
(* line in the diff, src tells how the line got into the chunk ("orig": it   *)
(* is the line's own place, "header": file header put again on top of a hunk *)
(* chunk, "overlap": copied from the end of the previous piece).             *)

MaxLines == 5
MaxCharsPerToken == 2

FileLineLen == 10
HunkLineLen == 2
TextLens == {0, 4, 12}
ChunkSizes == {8, 16}
ChunkOverlaps == {0, 5}

LineKinds ==
    {[kind |-> "file", len |-> FileLineLen], [kind |-> "hunk", len |-> HunkLineLen]}
        \cup {[kind |-> "text", len |-> l] : l \in TextLens}

Diffs == UNION {[1..n -> LineKinds] : n \in 1..MaxLines}

Entry(k) == [i |-> k, src |-> "orig"]

Retag(lines, src) == [j \in 1..Len(lines) |-> [i |-> lines[j].i, src |-> src]]

LineLen(e) == diff[e.i].len

LineKind(e) == diff[e.i].kind

RECURSIVE SumLen(_)
SumLen(lines) ==
    IF lines = <<>> THEN 0 ELSE LineLen(Head(lines)) + SumLen(Tail(lines))

\* len('\n'.join(lines))
JoinLen(lines) ==
    IF lines = <<>> THEN 0 ELSE SumLen(lines) + Len(lines) - 1

\* line 77 and 106 of token_counter.py: the estimate used when encoding fails
EstimatedCharsPerToken == 4

\* TokenCounter.count_tokens of a text of `chars` characters; when
\* encoding.encode raises (tc_encodable is FALSE) the count is len(text) // 4
count_tokens(chars) ==
    IF chars = 0 THEN 0
    ELSE IF tc_encodable
         THEN (chars + chars_per_token - 1) \div chars_per_token
         ELSE chars \div EstimatedCharsPerToken

ChunkInfo(lines, chunk_type, is_complete_file) ==
    [lines |-> lines, chunk_type |-> chunk_type, is_complete_file |-> is_complete_file]

\* token count of a chunk's content, as get_chunking_stats measures it
ChunkTokens(chunk) == count_tokens(JoinLen(chunk.lines))

RECURSIVE split_by_files_loop(_, _, _)
split_by_files_loop(k, files, current_file) ==
    IF k > Len(diff)
    THEN IF current_file # <<>> THEN Append(files, current_file) ELSE files
    ELSE IF diff[k].kind = "file"
         THEN split_by_files_loop(k + 1,
                  IF current_file # <<>> THEN Append(files, current_file) ELSE files,
                  <<Entry(k)>>)
         ELSE split_by_files_loop(k + 1, files, Append(current_file, Entry(k)))

split_by_files == split_by_files_loop(1, <<>>, <<>>)

found_hunk(lines) == \E j \in 1..Len(lines) : LineKind(lines[j]) = "hunk"

\* index (from 1) of the first line that starts with '@@'
content_start(lines) ==
    CHOOSE j \in 1..Len(lines) :
        /\ LineKind(lines[j]) = "hunk"
        /\ \A h \in 1..(j - 1) : LineKind(lines[h]) # "hunk"

header_lines(lines) == SubSeq(lines, 1, content_start(lines) - 1)

RECURSIVE split_hunks_loop(_, _, _)
split_hunks_loop(rest, hunks, current_hunk) ==
    IF rest = <<>>
    THEN IF current_hunk # <<>> THEN Append(hunks, current_hunk) ELSE hunks
    ELSE IF LineKind(Head(rest)) = "hunk" /\ current_hunk # <<>>
         THEN split_hunks_loop(Tail(rest), Append(hunks, current_hunk), <<Head(rest)>>)
         ELSE split_hunks_loop(Tail(rest), hunks, Append(current_hunk, Head(rest)))

split_hunks(lines) ==
    split_hunks_loop(SubSeq(lines, content_start(lines), Len(lines)), <<>>, <<>>)

\* The list `chunks` after a chunk of header + hunks is saved: nothing is
\* saved while the chunk holds the header only.  The header of the first
\* saved chunk is the file's own header, later ones are put again.
SaveHunkChunk(out, header, current_chunk_lines) ==
    IF Len(current_chunk_lines) > Len(header)
    THEN Append(out, ChunkInfo(
             (IF out = <<>> THEN header ELSE Retag(header, "header"))
                 \o SubSeq(current_chunk_lines, Len(header) + 1, Len(current_chunk_lines)),
             "hunk", FALSE))
    ELSE out

FinalHunkChunk_Dropped(out, header, current_chunk_lines) == out

FinalHunkChunk(out, header, current_chunk_lines) ==
    SaveHunkChunk(out, header, current_chunk_lines)

RECURSIVE hunk_chunks_loop(_, _, _, _, _)
hunk_chunks_loop(hunks, header, out, current_chunk_lines, current_size) ==
    IF hunks = <<>>
    THEN FinalHunkChunk(out, header, current_chunk_lines)
    ELSE LET hunk == Head(hunks)
             hunk_size == JoinLen(hunk)
         IN  IF current_size + hunk_size <= chunk_size
             THEN hunk_chunks_loop(Tail(hunks), header, out,
                      current_chunk_lines \o hunk, current_size + hunk_size)
             ELSE hunk_chunks_loop(Tail(hunks), header,
                      SaveHunkChunk(out, header, current_chunk_lines),
                      header \o hunk, JoinLen(header) + hunk_size)

split_file_by_hunks(lines) ==
    IF ~found_hunk(lines)
    THEN <<>>
    ELSE hunk_chunks_loop(split_hunks(lines), header_lines(lines), <<>>,
             header_lines(lines), JoinLen(header_lines(lines)))

line_tokens(e) == count_tokens(LineLen(e) + 1)

\* Lines 262-272: walk current_lines from its end while the lines fit the
\* overlap budget.  The result is [n, tokens]: how many trailing lines are
\* taken and their token sum.
RECURSIVE overlap_loop(_, _, _, _)
overlap_loop(current_lines, j, n, overlap_tokens) ==
    IF j = 0
    THEN [n |-> n, tokens |-> overlap_tokens]
    ELSE IF overlap_tokens + line_tokens(current_lines[j]) <= chunk_overlap
         THEN overlap_loop(current_lines, j - 1, n + 1,
                  overlap_tokens + line_tokens(current_lines[j]))
         ELSE [n |-> n, tokens |-> overlap_tokens]

Overlap_LastLine(current_lines) ==
    IF chunk_overlap > 0 /\ Len(current_lines) > 1
    THEN [n |-> 1, tokens |-> line_tokens(current_lines[Len(current_lines)])]
    ELSE [n |-> 0, tokens |-> 0]

Overlap(current_lines) ==
    IF chunk_overlap > 0 /\ Len(current_lines) > 1
    THEN overlap_loop(current_lines, Len(current_lines), 0, 0)
    ELSE [n |-> 0, tokens |-> 0]

overlap_lines(current_lines) ==
    Retag(SubSeq(current_lines, Len(current_lines) - Overlap(current_lines).n + 1,
                 Len(current_lines)), "overlap")

RECURSIVE split_by_tokens_loop(_, _, _, _, _)
split_by_tokens_loop(rest, chunk_type, out, current_lines, current_tokens) ==
    IF rest = <<>>
    THEN IF current_lines # <<>>
         THEN Append(out, ChunkInfo(current_lines, chunk_type, FALSE))
         ELSE out
    ELSE LET line == Head(rest)
         IN  IF current_tokens + line_tokens(line) > chunk_size /\ current_lines # <<>>
             THEN split_by_tokens_loop(Tail(rest), chunk_type,
                      Append(out, ChunkInfo(current_lines, chunk_type, FALSE)),
                      Append(overlap_lines(current_lines), line),
                      Overlap(current_lines).tokens + line_tokens(line))
             ELSE split_by_tokens_loop(Tail(rest), chunk_type, out,
                      Append(current_lines, line),
                      current_tokens + line_tokens(line))

split_by_tokens(lines, chunk_type) ==
    split_by_tokens_loop(lines, chunk_type, <<>>, <<>>, 0)

oversized_chunks_Untagged(hunk_chunk) ==
    split_by_tokens(hunk_chunk.lines, "token-based")

\* Lines 73-76: the pieces of an oversized hunk chunk, relabelled
oversized_chunks(hunk_chunk) ==
    split_by_tokens(hunk_chunk.lines, "hunk-token-based")

\* Lines 65-77: hunk chunks within the budget are kept, the others are split
\* by tokens and relabelled 'hunk-token-based'.
RECURSIVE final_chunks(_)
final_chunks(hunk_chunks) ==
    IF hunk_chunks = <<>>
    THEN <<>>
    ELSE LET hunk_chunk == Head(hunk_chunks)
         IN  (IF ChunkTokens(hunk_chunk) <= chunk_size
              THEN <<hunk_chunk>>
              ELSE oversized_chunks(hunk_chunk))
                 \o final_chunks(Tail(hunk_chunks))

FileChunks_AlwaysSplit(file_content) ==
    IF split_file_by_hunks(file_content) # <<>>
    THEN final_chunks(split_file_by_hunks(file_content))
    ELSE split_by_tokens(file_content, "token-based")

FileChunks(file_content) ==
    IF count_tokens(JoinLen(file_content)) <= chunk_size
    THEN <<ChunkInfo(file_content, "file", TRUE)>>
    ELSE IF split_file_by_hunks(file_content) # <<>>
         THEN final_chunks(split_file_by_hunks(file_content))
         ELSE split_by_tokens(file_content, "token-based")

RECURSIVE chunk_diff_loop(_)
chunk_diff_loop(file_sections) ==
    IF file_sections = <<>>
    THEN <<>>
    ELSE FileChunks(Head(file_sections)) \o chunk_diff_loop(Tail(file_sections))

chunk_diff == chunk_diff_loop(split_by_files)

ChunkInit ==
    /\ RetryIdle
    /\ RateIdle
    /\ MRIdle
    /\ OptimizeIdle
    /\ GenerateIdle
    /\ TokenUnused
    /\ tc_encodable \in BOOLEAN
    /\ ConfigIdle
    /\ diff \in Diffs
    /\ chunk_size \in ChunkSizes
    /\ chunk_overlap \in ChunkOverlaps
    /\ chars_per_token \in 1..MaxCharsPerToken
    /\ ck_pc = "ready"
    /\ chunks = <<>>

ChunkDiff ==
    /\ ck_pc = "ready"
    /\ chunks' = chunk_diff
    /\ ck_pc' = "done"
    /\ UNCHANGED <<diff, chunk_size, chunk_overlap, chars_per_token>>
    /\ UNCHANGED <<rtVars, rlVars, mrVars, opVars, gnVars, tkVars, cfVars>>

ChunkNext == ChunkDiff

SpecChunk == ChunkInit /\ [][ChunkNext]_vars

-----------------------------------------------------------------------------
(* Claims about chunk_diff *)

OversizedLineAlone(chunk) ==
    /\ Len(chunk.lines) = 1
    /\ count_tokens(LineLen(chunk.lines[1])) > chunk_size

\* C6: every chunk returned by chunk_diff measures at most chunk_size tokens,
\* unless it is exactly one line whose own token count exceeds chunk_size.
C6_ChunkWithinBudget ==
    ck_pc = "done" =>
        \A k \in 1..Len(chunks) :
            ChunkTokens(chunks[k]) <= chunk_size \/ OversizedLineAlone(chunks[k])

RECURSIVE KeptLines(_)
KeptLines(cs) ==
    IF cs = <<>>
    THEN <<>>
    ELSE SelectSeq(Head(cs).lines, LAMBDA e : e.src = "orig") \o KeptLines(Tail(cs))

HasLine(chunk, src) == \E j \in 1..Len(chunk.lines) : chunk.lines[j].src = src

\* C7: the chunks in batch order, without the file-header lines put again on
\* top of hunk chunks and without the overlap lines copied from the previous
\* piece, are the lines of the diff, each once and in the diff's order.
C7_RoundTrip ==
    ck_pc = "done" => KeptLines(chunks) = [k \in 1..Len(diff) |-> Entry(k)]

C7_Witness ==
    /\ ck_pc = "done"
    /\ Len(chunks) >= 4
    /\ \E k \in 1..Len(chunks) : HasLine(chunks[k], "header")
    /\ \E k \in 1..Len(chunks) : HasLine(chunks[k], "overlap")
    /\ \E k \in 1..Len(chunks) : chunks[k].chunk_type = "hunk-token-based"
    /\ KeptLines(chunks) = [k \in 1..Len(diff) |-> Entry(k)]

-----------------------------------------------------------------------------
(* diff_optimizer.py: DiffOptimizer.optimize_diff.                           *)
(* A line of the diff handed in is [kind, len]; the kind is the prefix the   *)
(* optimizer tests: "file" 'diff --git', "index" 'index ' / 'new file mode'  *)
(* / 'deleted file mode', "path" '--- a/' or '+++ b/', "hunk" '@@',          *)
(* "context" ' ', "ws_change" '+' or '-' followed by white space only,       *)
(* "change" any other '+' or '-' line, "text" anything else.                 *)
(* A line of the result is [kind, len, from, src, omitted]: from is the      *)
(* position of the input line it was made from (0 for an elision marker),    *)
(* src is "orig" (unchanged), "simplified" (path without a/ b/), "ws"        *)
(* ('+ (whitespace change)'), "marker" or "trailing_marker"; omitted is the  *)
(* count a marker states.                                                    *)

MaxRawLines == 6

IndexLineLen == 6
PathLineLen == 7
ContextLineLen == 1
ChangeLineLen == 2

\* len(' ... (N context lines omitted)') and
\* len(' ... (N trailing context lines omitted)') for N < 10
MarkerLen == 30
TrailingMarkerLen == 39

\* len('+ (whitespace change)')
WhitespaceChangeLen == 21

\* the a/ or b/ that the simplified path loses
PathPrefixLen == 2

ContextLimits == {1, 2}

RawKinds ==
    { [kind |-> "file", len |-> FileLineLen],
      [kind |-> "index", len |-> IndexLineLen],
      [kind |-> "path", len |-> PathLineLen],
      [kind |-> "hunk", len |-> HunkLineLen],
      [kind |-> "context", len |-> ContextLineLen],
      [kind |-> "change", len |-> ChangeLineLen],
      [kind |-> "ws_change", len |-> ChangeLineLen] }

RawDiffs == UNION {[1..n -> RawKinds] : n \in 1..MaxRawLines}

OutLine(kind, len, from, src, omitted) ==
    [kind |-> kind, len |-> len, from |-> from, src |-> src, omitted |-> omitted]

Kept(j) == OutLine(raw[j].kind, raw[j].len, j, "orig", 0)

Marker(n) == OutLine("context", MarkerLen, 0, "marker", n)

TrailingMarker(n) == OutLine("context", TrailingMarkerLen, 0, "trailing_marker", n)

\* line 125-126
is_whitespace_only_change(j) == raw[j].kind = "ws_change"

ChangeLine(j, aggr) ==
    IF aggr /\ is_whitespace_only_change(j)
    THEN OutLine("change", WhitespaceChangeLen, j, "ws", 0)
    ELSE Kept(j)

\* context_buffer[:max_context_lines]
keep_start(context_buffer) ==
    SubSeq(context_buffer, 1, Min(max_context_lines, Len(context_buffer)))

\* context_buffer[-max_context_lines:]
keep_end(context_buffer) ==
    IF max_context_lines = 0 \/ max_context_lines >= Len(context_buffer)
    THEN context_buffer
    ELSE SubSeq(context_buffer, Len(context_buffer) - max_context_lines + 1,
                Len(context_buffer))

\* line 110-122: the context buffer is flushed before a changed line
FlushContext(context_buffer, aggr) ==
    IF aggr /\ Len(context_buffer) > max_context_lines * 2
    THEN [lines |-> keep_start(context_buffer)
                    \o <<Marker(Len(context_buffer) - Len(keep_start(context_buffer))
                                - Len(keep_end(context_buffer)))>>
                    \o keep_end(context_buffer),
          removed |-> Len(context_buffer) - Len(keep_start(context_buffer))
                      - Len(keep_end(context_buffer))]
    ELSE [lines |-> context_buffer, removed |-> 0]

\* line 132-138: the context left at the end of the hunk
FlushTrailing(context_buffer, aggr) ==
    IF aggr /\ Len(context_buffer) > max_context_lines
    THEN [lines |-> SubSeq(context_buffer, 1, max_context_lines)
                    \o <<TrailingMarker(Len(context_buffer) - max_context_lines)>>,
          removed |-> Len(context_buffer) - max_context_lines]
    ELSE [lines |-> context_buffer, removed |-> 0]

RECURSIVE process_hunk_loop(_, _, _, _, _)
process_hunk_loop(j, aggr, hunk_result, removed_count, context_buffer) ==
    IF j > Len(raw) \/ raw[j].kind \in {"hunk", "file"}
    THEN [result |-> hunk_result \o FlushTrailing(context_buffer, aggr).lines,
          removed_count |-> removed_count + FlushTrailing(context_buffer, aggr).removed]
    ELSE IF raw[j].kind = "context"
    THEN process_hunk_loop(j + 1, aggr, hunk_result, removed_count,
                           Append(context_buffer, Kept(j)))
    ELSE process_hunk_loop(j + 1, aggr,
             Append(hunk_result \o FlushContext(context_buffer, aggr).lines,
                    ChangeLine(j, aggr)),
             removed_count + FlushContext(context_buffer, aggr).removed
                 + (IF aggr /\ is_whitespace_only_change(j) THEN 1 ELSE 0),
             <<>>)

\* _process_hunk(lines[i:], aggressive), i counted from 1
process_hunk(i, aggr) == process_hunk_loop(i, aggr, <<>>, 0, <<>>)

\* line 57: the path line without its a/ or b/
Simplified(j) ==
    OutLine("path", raw[j].len - PathPrefixLen, j, "simplified", 0)

\* line 73: `i += len(hunk_lines)` moves on by the number of lines that
\* _process_hunk returned, not by the number of lines it read.
AfterHunk(i, hunk_lines) == i + Len(hunk_lines)

RECURSIVE optimize_loop(_, _, _, _, _)
optimize_loop(i, aggr, optimized_lines, files_processed, lines_removed) ==
    IF i > Len(raw)
    THEN [lines |-> optimized_lines, files_processed |-> files_processed,
          lines_removed |-> lines_removed]
    ELSE IF raw[i].kind = "file"
    THEN optimize_loop(i + 1, aggr, Append(optimized_lines, Kept(i)),
                       files_processed + 1, lines_removed)
    ELSE IF raw[i].kind = "index"
    THEN IF ~aggr
         THEN optimize_loop(i + 1, aggr, Append(optimized_lines, Kept(i)),
                            files_processed, lines_removed)
         ELSE optimize_loop(i + 1, aggr, optimized_lines, files_processed,
                            lines_removed + 1)
    ELSE IF raw[i].kind = "path"
    THEN optimize_loop(i + 1, aggr,
             Append(optimized_lines, IF aggr THEN Simplified(i) ELSE Kept(i)),
             files_processed, lines_removed)
    ELSE IF raw[i].kind = "hunk"
    THEN LET hunk == process_hunk(i + 1, aggr)
         IN  optimize_loop(AfterHunk(i + 1, hunk.result), aggr,
                 Append(optimized_lines, Kept(i)) \o hunk.result,
                 files_processed, lines_removed + hunk.removed_count)
    ELSE optimize_loop(i + 1, aggr, Append(optimized_lines, Kept(i)),
                       files_processed, lines_removed)

RECURSIVE SumOutLen(_)
SumOutLen(lines) ==
    IF lines = <<>> THEN 0 ELSE Head(lines).len + SumOutLen(Tail(lines))

\* len('\n'.join(lines)) of result lines or of input lines
TextLen(lines) ==
    IF lines = <<>> THEN 0 ELSE SumOutLen(lines) + Len(lines) - 1

optimize_diff(aggr) ==
    LET r == optimize_loop(1, aggr, <<>>, 0, 0)
    IN  [optimized_lines |-> r.lines,
         stats |-> [files_processed |-> r.files_processed,
                    lines_removed |-> r.lines_removed,
                    original_size |-> TextLen(raw),
                    optimized_size |-> TextLen(r.lines)]]

OptimizeInit ==
    /\ RetryIdle
    /\ RateIdle
    /\ MRIdle
    /\ ChunkIdle
    /\ GenerateIdle
    /\ TokenIdle
    /\ ConfigIdle
    /\ raw \in RawDiffs
    /\ aggressive \in BOOLEAN
    /\ max_context_lines \in ContextLimits
    /\ op_pc = "ready"
    /\ optimized = <<>>
    /\ diff_stats = NoStats

OptimizeDiff ==
    /\ op_pc = "ready"
    /\ optimized' = optimize_diff(aggressive).optimized_lines
    /\ diff_stats' = optimize_diff(aggressive).stats
    /\ op_pc' = "done"
    /\ UNCHANGED <<raw, aggressive, max_context_lines>>
    /\ UNCHANGED <<rtVars, rlVars, mrVars, ckVars, gnVars, tkVars, cfVars>>

OptimizeNext == OptimizeDiff

SpecOptimize == OptimizeInit /\ [][OptimizeNext]_vars

-----------------------------------------------------------------------------
(* Claims about optimize_diff *)

\* a..b is a maximal run of context lines inside a hunk, followed by a
\* changed line
ContextRunBeforeChange(a, b) ==
    /\ 1 < a /\ a <= b /\ b < Len(raw)
    /\ \A j \in a..b : raw[j].kind = "context"
    /\ raw[a - 1].kind # "context"
    /\ raw[b + 1].kind \notin {"context", "hunk", "file"}
    /\ \E h \in 1..(a - 1) :
          /\ raw[h].kind = "hunk"
          /\ \A j \in (h + 1)..(a - 1) : raw[j].kind \notin {"hunk", "file"}

\* the k leading lines, the marker and the k trailing lines of the run a..b
Elided(a, b, k) ==
    [j \in 1..k |-> Kept(a + j - 1)]
        \o <<Marker((b - a + 1) - 2 * k)>>
        \o [j \in 1..k |-> Kept(b - k + j)]

EmittedAt(p, lines) ==
    /\ p + Len(lines) - 1 <= Len(optimized)
    /\ \A j \in 1..Len(lines) : optimized[p + j - 1] = lines[j]

\* C19: in aggressive mode a run of n > 2k context lines in a hunk that is
\* followed by a changed line comes out as its k leading lines, one marker
\* stating n - 2k omitted lines and its k trailing lines; no input line
\* comes out twice and the lines that come out keep the order of the input
\* (after a hunk comes the next hunk or file header).
C19_ElisionExact ==
    (op_pc = "done" /\ aggressive) =>
        /\ \A a, b \in 1..Len(raw) :
              (ContextRunBeforeChange(a, b) /\ b - a + 1 > 2 * max_context_lines)
                  => \E p \in 1..Len(optimized) :
                         EmittedAt(p, Elided(a, b, max_context_lines))
        /\ \A p, q \in 1..Len(optimized) :
              (p < q /\ optimized[p].from # 0 /\ optimized[q].from # 0)
                  => optimized[p].from < optimized[q].from

-----------------------------------------------------------------------------
(* langchain_base.py: generate_commit_message up to the completion call it   *)
(* issues (_generate_simple, the single-chunk call) or to the hand-over of   *)
(* the documents to _manual_map_reduce, which Spec continues.                *)

GenMaxLines == 3

GenThresholds == {8, 40}
GenMaxTokens == {6, 30}

GenDiffs == UNION {[1..n -> RawKinds] : n \in 1..GenMaxLines}

\* the prefix of `chars` characters of one line: what kind of line is left
CutLine(l, chars) ==
    [kind |-> IF chars = 0 THEN "text"
              ELSE IF l.kind = "file"
                   THEN (IF chars >= FileLineLen THEN "file" ELSE "text")
              ELSE IF l.kind = "hunk"
                   THEN (IF chars >= HunkLineLen THEN "hunk" ELSE "text")
              ELSE IF l.kind = "index"
                   THEN (IF chars >= IndexLineLen THEN "index" ELSE "text")
              ELSE IF l.kind = "path"
                   THEN (IF chars >= PathLineLen - PathPrefixLen - 1 THEN "path" ELSE "change")
              ELSE IF l.kind = "context" THEN "context"
              ELSE IF l.kind \in {"change", "ws_change"}
                   THEN (IF l.src = "ws" /\ chars = 2 THEN "ws_change" ELSE "change")
              ELSE "text",
     len |-> chars]

Plain(l) == [kind |-> l.kind, len |-> l.len]

\* text[:chars] as lines
RECURSIVE prefix_lines(_, _)
prefix_lines(lines, chars) ==
    IF lines = <<>> THEN <<>>
    ELSE IF Head(lines).len > chars THEN <<CutLine(Head(lines), chars)>>
    ELSE IF Head(lines).len = chars \/ Tail(lines) = <<>> THEN <<Plain(Head(lines))>>
    ELSE <<Plain(Head(lines))>> \o prefix_lines(Tail(lines), chars - Head(lines).len - 1)

\* TokenCounter.truncate_to_tokens: the first n tokens, decoded; when
\* encoding.encode raises, the first n * 4 characters
truncate_to_tokens(lines, n) ==
    IF tc_encodable
    THEN IF count_tokens(TextLen(lines)) <= n
         THEN [j \in 1..Len(lines) |-> Plain(lines[j])]
         ELSE prefix_lines(lines, n * chars_per_token)
    ELSE IF TextLen(lines) > n * EstimatedCharsPerToken
         THEN prefix_lines(lines, n * EstimatedCharsPerToken)
         ELSE [j \in 1..Len(lines) |-> Plain(lines[j])]

\* line 143-151
Truncated(lines, chunking) ==
    IF ~chunking /\ count_tokens(TextLen(lines)) > max_tokens
    THEN truncate_to_tokens(lines, max_tokens)
    ELSE [j \in 1..Len(lines) |-> Plain(lines[j])]

\* line 157-158
should_chunk == count_tokens(TextLen(diff)) > chunking_threshold

\* line 253
IsSingleChunk_Never(docs) == FALSE

IsSingleChunk(docs) == Len(docs) = 1

GenerateInit ==
    /\ TokenUnused
    /\ tc_encodable \in BOOLEAN
    /\ ConfigIdle
    /\ RetryIdle
    /\ RateIdle
    /\ MRIdle
    /\ raw \in GenDiffs
    /\ aggressive = FALSE
    /\ max_context_lines \in ContextLimits
    /\ op_pc = "unused"
    /\ optimized = <<>>
    /\ diff_stats = NoStats
    /\ diff = <<>>
    /\ chunk_size \in ChunkSizes
    /\ chunk_overlap \in ChunkOverlaps
    /\ chars_per_token \in 1..MaxCharsPerToken
    /\ ck_pc = "unused"
    /\ chunks = <<>>
    /\ chunking_threshold \in GenThresholds
    /\ max_tokens \in GenMaxTokens
    /\ gen_pc = "start"
    /\ will_chunk = FALSE
    /\ chunker_calls = 0
    /\ direct_units = 0
    /\ direct_target = "none"
    /\ direct_prompt = "none"
    /\ handed_docs = 0

\* line 119-153: count, optimize, truncate
GenOptimize ==
    /\ gen_pc = "start"
    /\ will_chunk' = (count_tokens(TextLen(raw)) > chunking_threshold)
    /\ aggressive' = ~will_chunk'
    /\ optimized' = optimize_diff(aggressive').optimized_lines
    /\ diff_stats' = optimize_diff(aggressive').stats
    /\ op_pc' = "done"
    /\ diff' = Truncated(optimized', will_chunk')
    /\ gen_pc' = "decide"
    /\ UNCHANGED <<raw, max_context_lines>>
    /\ UNCHANGED <<chunk_size, chunk_overlap, chars_per_token, ck_pc, chunks>>
    /\ UNCHANGED <<chunking_threshold, max_tokens, chunker_calls, direct_units,
                   direct_target, direct_prompt, handed_docs>>
    /\ UNCHANGED <<rtVars, rlVars, mrVars, tkVars, cfVars>>

\* line 166-169, 180-199: _generate_simple
GenDirect ==
    /\ gen_pc = "decide"
    /\ ~should_chunk
    /\ direct_units' = direct_units + 1
    /\ direct_target' = "main"
    /\ direct_prompt' = "diff"
    /\ gen_pc' = "direct"
    /\ UNCHANGED <<chunking_threshold, max_tokens, will_chunk, chunker_calls, handed_docs>>
    /\ UNCHANGED <<rtVars, rlVars, mrVars, ckVars, opVars, tkVars, cfVars>>

\* line 160-164, 228-230, 253-275: one chunk, the single call
GenSingleChunk ==
    /\ gen_pc = "decide"
    /\ should_chunk
    /\ IsSingleChunk(chunk_diff)
    /\ chunks' = chunk_diff
    /\ ck_pc' = "done"
    /\ chunker_calls' = chunker_calls + 1
    /\ direct_units' = direct_units + 1
    /\ direct_target' = "main"
    /\ direct_prompt' = "chunk"
    /\ gen_pc' = "single"
    /\ UNCHANGED <<diff, chunk_size, chunk_overlap, chars_per_token>>
    /\ UNCHANGED <<chunking_threshold, max_tokens, will_chunk, handed_docs>>
    /\ UNCHANGED <<rtVars, rlVars, mrVars, opVars, tkVars, cfVars>>

\* line 160-164, 228-230, 276-278: the documents go to _manual_map_reduce
GenMapReduce ==
    /\ gen_pc = "decide"
    /\ should_chunk
    /\ ~IsSingleChunk(chunk_diff)
    /\ chunks' = chunk_diff
    /\ ck_pc' = "done"
    /\ chunker_calls' = chunker_calls + 1
    /\ handed_docs' = Len(chunk_diff)
    /\ gen_pc' = "map_reduce"
    /\ UNCHANGED <<diff, chunk_size, chunk_overlap, chars_per_token>>
    /\ UNCHANGED <<chunking_threshold, max_tokens, will_chunk, direct_units,
                   direct_target, direct_prompt>>
    /\ UNCHANGED <<rtVars, rlVars, mrVars, opVars, tkVars, cfVars>>

GenerateNext == GenOptimize \/ GenDirect \/ GenSingleChunk \/ GenMapReduce

SpecGenerate == GenerateInit /\ [][GenerateNext]_vars

-----------------------------------------------------------------------------
(* Claims about generate_commit_message *)

GenDispatched == gen_pc \in {"direct", "single", "map_reduce"}

\* C13: when chunk_diff returns exactly one chunk, the operation issues one
\* completion unit of work on the main model with the commit prompt built
\* from that chunk, and hands nothing to the map-reduce (no map call, no
\* reduce call).
C13_SingleChunkDirect ==
    (GenDispatched /\ chunker_calls > 0 /\ Len(chunks) = 1) =>
        /\ gen_pc = "single"
        /\ direct_units = 1
        /\ direct_target = "main"
        /\ direct_prompt = "chunk"
        /\ handed_docs = 0

C13_Witness ==
    /\ gen_pc = "single"
    /\ chunker_calls = 1
    /\ Len(chunks) = 1
    /\ chunks[1].lines = [j \in 1..Len(diff) |-> Entry(j)]
    /\ direct_units = 1

\* C14: a diff whose token count is at most chunking_threshold is processed
\* as one direct completion unit of work and chunk_diff is never called.
C14_UnderThresholdDirect ==
    (GenDispatched /\ count_tokens(TextLen(raw)) <= chunking_threshold) =>
        /\ gen_pc = "direct"
        /\ chunker_calls = 0
        /\ direct_units = 1
        /\ handed_docs = 0

-----------------------------------------------------------------------------
(* Claims about the worker pool and the phases of the map-reduce *)

\* the configured parallelism of the map target
ConfiguredParallelism ==
    IF ollama THEN ollama_max_parallel_chunks ELSE max_parallel_chunks

\* C15: at most min(P, N) map calls are in flight, P being the configured
\* parallelism of the map target and N the number of chunks; the pool is
\* created with min(P, N) workers, never more workers than chunks.
C15_BoundedParallelism ==
    /\ Cardinality(Running) <= Min(ConfiguredParallelism, n_docs)
    /\ pc # "idle" =>
          /\ max_workers = Min(ConfiguredParallelism, n_docs)
          /\ max_workers <= n_docs
    /\ pc \in {"seq_map", "seq_reduce", "done", "failed"} => Running = {}

C15_Witness ==
    /\ ConfiguredParallelism = 3
    /\ n_docs = 2
    /\ max_workers = 2
    /\ Cardinality(Running) = 2

\* the pool is saturated: a chunk waits although it was submitted
C15_WitnessSaturated ==
    /\ ConfiguredParallelism = 2
    /\ n_docs = 3
    /\ Cardinality(Running) = 2
    /\ queue # <<>>

\* C17: the operation goes Idle, Mapping, Reducing, Done and enters each
\* phase at most once: no chunk is mapped in two mapping passes, there is one
\* reduce, no call is dispatched after the reduce step has started and
\* failed, and the operation fails only through its reduce step, never
\* through the failure of a chunk.
C17_PhasesInOrder ==
    /\ \A c \in Chunks : map_units[c] <= 1
    /\ reduce_units <= 1
    /\ ~called_after
    /\ pc = "failed" => reduce_failed
    /\ pc = "done" => reduce_units = 1

-----------------------------------------------------------------------------
(* More claims about chunk_diff *)

IsTokenSplit(chunk) == chunk.chunk_type \in {"token-based", "hunk-token-based"}

\* C16: in token-level splitting a line whose own token count exceeds
\* chunk_size is alone in the chunk that contains it, with or without overlap.
C16_OversizedLineAlone ==
    ck_pc = "done" =>
        \A k \in 1..Len(chunks) :
            IsTokenSplit(chunks[k]) =>
                \A j \in 1..Len(chunks[k].lines) :
                    count_tokens(LineLen(chunks[k].lines[j])) > chunk_size
                        => Len(chunks[k].lines) = 1

\* the file section of the diff that holds line i
SectionOf(i) ==
    CHOOSE sec \in {split_by_files[n] : n \in 1..Len(split_by_files)} :
        \E j \in 1..Len(sec) : sec[j].i = i

StartsWith(lines, header) ==
    /\ Len(lines) >= Len(header)
    /\ \A j \in 1..Len(header) : lines[j].i = header[j].i

\* C18: for a file section over the budget that has hunk markers, every chunk
\* made from it, tagged 'hunk' or 'hunk-token-based', begins with the file
\* header: all lines of the section before its first '@@' line.
C18_HeaderOnEveryChunk ==
    ck_pc = "done" =>
        \A k \in 1..Len(chunks) :
            LET sec == SectionOf(chunks[k].lines[1].i)
            IN  (count_tokens(JoinLen(sec)) > chunk_size /\ found_hunk(sec))
                    => StartsWith(chunks[k].lines, header_lines(sec))

FileSections == split_by_files

\* C20: a diff that begins with a 'diff --git' line and whose file sections
\* are all within chunk_size gives one chunk per file section: the k-th chunk
\* is the whole k-th section, tagged 'file', with is_complete_file true.
C20_WholeFileChunks ==
    (/\ ck_pc = "done"
     /\ diff[1].kind = "file"
     /\ \A n \in 1..Len(FileSections) :
            count_tokens(JoinLen(FileSections[n])) <= chunk_size)
    => /\ Len(chunks) = Len(FileSections)
       /\ Len(chunks) = Cardinality({i \in 1..Len(diff) : diff[i].kind = "file"})
       /\ \A k \in 1..Len(chunks) :
             /\ chunks[k].lines = FileSections[k]
             /\ chunks[k].lines[1] = Entry(CHOOSE i \in 1..Len(diff) :
                    /\ diff[i].kind = "file"
                    /\ Cardinality({h \in 1..i : diff[h].kind = "file"}) = k)
             /\ chunks[k].chunk_type = "file"
             /\ chunks[k].is_complete_file

C20_Witness ==
    /\ ck_pc = "done"
    /\ diff[1].kind = "file"
    /\ Len(chunks) = 3
    /\ Len(diff) = 5
    /\ \A k \in 1..3 : chunks[k].chunk_type = "file" /\ chunks[k].is_complete_file
    /\ Len(chunks[2].lines) = 2

\* a diff of one file with one hunk: it starts with the only 'diff --git'
\* line and has one '@@' line
OneFileOneHunk ==
    /\ diff[1].kind = "file"
    /\ Cardinality({i \in 1..Len(diff) : diff[i].kind = "file"}) = 1
    /\ Cardinality({i \in 1..Len(diff) : diff[i].kind = "hunk"}) = 1

\* token count of the only hunk of such a diff
OnlyHunkTokens == count_tokens(JoinLen(split_hunks(FileSections[1])[1]))

\* C21: for a diff of one file with one hunk whose token count is several
\* times (at least twice) chunk_size, every chunk returned is tagged
\* 'hunk-token-based'; none is tagged 'file' or 'hunk'.
C21_OversizedHunkIsHybrid ==
    (ck_pc = "done" /\ OneFileOneHunk /\ OnlyHunkTokens >= 2 * chunk_size)
    => /\ chunks # <<>>
       /\ \A k \in 1..Len(chunks) : chunks[k].chunk_type = "hunk-token-based"

\* the hunk is five times the budget and is cut into several pieces
C21_Witness ==
    /\ ck_pc = "done"
    /\ OneFileOneHunk
    /\ OnlyHunkTokens >= 5 * chunk_size
    /\ Len(chunks) >= 3
    /\ \A k \in 1..Len(chunks) : chunks[k].chunk_type = "hunk-token-based"

-----------------------------------------------------------------------------
(* token_counter.py: TokenCounter.truncate_to_tokens and split_by_tokens.    *)
(* A text is the list of its characters, numbered from 1, so that a piece of *)
(* a text tells which characters it holds.  The encoding cuts a text into    *)
(* tokens of tc_width characters, the last one shorter; a token is the list  *)
(* of its characters and decode puts the characters of the tokens together.  *)

MaxTextLen == 6
MaxTokenBudget == 3
MaxPieces == MaxTextLen + 2


Texts == {[k \in 1..n |-> k] : n \in 0..MaxTextLen}

\* self.encoding.encode(text)
encode(text) ==
    [t \in 1..((Len(text) + tc_width - 1) \div tc_width) |->
        SubSeq(text, (t - 1) * tc_width + 1, Min(t * tc_width, Len(text)))]

\* self.encoding.decode(tokens)
RECURSIVE decode(_)
decode(tokens) ==
    IF tokens = <<>> THEN <<>> ELSE Head(tokens) \o decode(Tail(tokens))

\* lines 68-77: the number of tokens, or len(text) // 4 when encode raises
TokenCounter_count_tokens(text) ==
    IF text = <<>>
    THEN 0
    ELSE IF tc_encodable
         THEN Len(encode(text))
         ELSE Len(text) \div EstimatedCharsPerToken

\* lines 91-107
TokenCounter_truncate_to_tokens(text, max_tok) ==
    IF text = <<>>
    THEN text
    ELSE IF tc_encodable
         THEN IF Len(encode(text)) <= max_tok
              THEN text
              ELSE decode(SubSeq(encode(text), 1, max_tok))
         ELSE IF Len(text) > max_tok * EstimatedCharsPerToken
              THEN SubSeq(text, 1, max_tok * EstimatedCharsPerToken)
              ELSE text

\* What the loop of split_by_tokens walks over: the tokens (lines 115-133) or,
\* when encode raises, the characters (lines 134-149), in windows of
\* max_tokens tokens or max_tokens * 4 characters.
split_units ==
    IF tc_encodable THEN encode(tc_text) ELSE [k \in 1..Len(tc_text) |-> <<tc_text[k]>>]

split_overlap ==
    IF tc_encodable THEN tc_overlap ELSE tc_overlap * EstimatedCharsPerToken

\* end = min(start + max_tokens, len(tokens)), min(start + estimated_chars, len(text))
split_end(start) ==
    Min(start + (IF tc_encodable THEN tc_max_tokens
                 ELSE tc_max_tokens * EstimatedCharsPerToken),
        Len(split_units))

\* Python's seq[a:b]: a negative index counts from the end, and both are
\* clamped to the sequence
Slice(seq, a, b) ==
    LET index(x) == IF x < 0
                    THEN (IF x + Len(seq) < 0 THEN 0 ELSE x + Len(seq))
                    ELSE Min(x, Len(seq))
    IN  SubSeq(seq, index(a) + 1, index(b))

\* decode(tokens[start:end]), text[start:end]
chunk_text(start) == decode(Slice(split_units, start, split_end(start)))

TokInit ==
    /\ RetryIdle
    /\ RateIdle
    /\ MRIdle
    /\ ChunkIdle
    /\ OptimizeIdle
    /\ GenerateIdle
    /\ ConfigIdle
    /\ tc_text \in Texts
    /\ tc_width \in 1..MaxCharsPerToken
    /\ tc_encodable \in BOOLEAN
    /\ tc_max_tokens \in 1..MaxTokenBudget
    /\ tc_overlap \in 0..(tc_max_tokens - 1)
    /\ tc_pc = "ready"
    /\ tc_start = 0
    /\ tc_iter = 0
    /\ tc_chunks = <<>>
    /\ tc_truncated = <<>>

\* truncate_to_tokens(text, max_tokens)
Truncate ==
    /\ tc_pc = "ready"
    /\ tc_truncated' = TokenCounter_truncate_to_tokens(tc_text, tc_max_tokens)
    /\ tc_pc' = "truncated"
    /\ UNCHANGED <<tc_text, tc_width, tc_encodable, tc_max_tokens, tc_overlap, tc_start, tc_iter, tc_chunks>>
    /\ UNCHANGED <<rtVars, rlVars, mrVars, ckVars, opVars, gnVars, cfVars>>

\* truncate_to_tokens applied to what it returned, with the same max_tokens
TruncateAgain ==
    /\ tc_pc = "truncated"
    /\ tc_truncated' = TokenCounter_truncate_to_tokens(tc_truncated, tc_max_tokens)
    /\ tc_pc' = "retruncated"
    /\ UNCHANGED <<tc_text, tc_width, tc_encodable, tc_max_tokens, tc_overlap, tc_start, tc_iter, tc_chunks>>
    /\ UNCHANGED <<rtVars, rlVars, mrVars, ckVars, opVars, gnVars, cfVars>>

\* split_by_tokens, lines 111-120 and 134-140: the early returns, or a loop
\* is entered.  The fallback has no early return for a short text.
SplitEnter ==
    /\ tc_pc = "ready"
    /\ IF tc_text = <<>>
       THEN tc_chunks' = <<>> /\ tc_pc' = "returned"
       ELSE IF tc_encodable /\ Len(encode(tc_text)) <= tc_max_tokens
            THEN tc_chunks' = <<tc_text>> /\ tc_pc' = "returned"
            ELSE tc_chunks' = <<>> /\ tc_pc' = "loop"
    /\ tc_start' = 0
    /\ UNCHANGED <<tc_text, tc_width, tc_encodable, tc_max_tokens, tc_overlap, tc_iter,
                   tc_truncated>>
    /\ UNCHANGED <<rtVars, rlVars, mrVars, ckVars, opVars, gnVars, cfVars>>

\* split_by_tokens, lines 122-131 and 142-147: one iteration of the while
\* loop.  The list is followed up to MaxPieces pieces; a list that returns
\* is shorter.
SplitStep ==
    /\ tc_pc = "loop"
    /\ tc_chunks' = IF Len(tc_chunks) < MaxPieces
                    THEN Append(tc_chunks, chunk_text(tc_start))
                    ELSE tc_chunks
    /\ tc_iter' = 1 - tc_iter
    /\ tc_start' = split_end(tc_start) - split_overlap
    /\ tc_pc' = IF tc_start' >= Len(split_units) THEN "returned" ELSE "loop"
    /\ UNCHANGED <<tc_text, tc_width, tc_encodable, tc_max_tokens, tc_overlap, tc_truncated>>
    /\ UNCHANGED <<rtVars, rlVars, mrVars, ckVars, opVars, gnVars, cfVars>>

TokNext == Truncate \/ TruncateAgain \/ SplitEnter \/ SplitStep

SpecTokens == TokInit /\ [][TokNext]_vars

\* split_by_tokens runs in the calling thread: an iteration that can be
\* taken is taken.
SpecTokensLive == SpecTokens /\ WF_vars(SplitEnter) /\ WF_vars(SplitStep)

-----------------------------------------------------------------------------
(* Claims about TokenCounter *)

IsPrefix(s, t) == Len(s) <= Len(t) /\ s = SubSeq(t, 1, Len(s))

\* C22: truncate_to_tokens returns the text unchanged when its token count
\* is at most max_tokens and otherwise the text of its first max_tokens
\* tokens; the result never has more than max_tokens tokens, and truncating
\* it again with the same bound changes nothing.
C22_Truncate ==
    tc_pc \in {"truncated", "retruncated"} =>
        /\ TokenCounter_count_tokens(tc_text) <= tc_max_tokens => tc_truncated = tc_text
        /\ (tc_encodable /\ TokenCounter_count_tokens(tc_text) > tc_max_tokens) =>
              /\ IsPrefix(tc_truncated, tc_text)
              /\ encode(tc_truncated) = SubSeq(encode(tc_text), 1, tc_max_tokens)
        /\ TokenCounter_count_tokens(tc_truncated) <= tc_max_tokens
        /\ tc_pc = "retruncated" =>
              tc_truncated = TokenCounter_truncate_to_tokens(tc_text, tc_max_tokens)

\* the tokens of a piece, or its characters when encode raises
PieceUnits(piece) ==
    IF tc_encodable THEN encode(piece) ELSE [k \in 1..Len(piece) |-> <<piece[k]>>]

\* what piece k holds after its leading overlap
Fresh(pieces, k) ==
    IF k = 1
    THEN PieceUnits(pieces[1])
    ELSE SubSeq(PieceUnits(pieces[k]), split_overlap + 1, Len(PieceUnits(pieces[k])))

RECURSIVE FreshUpTo(_, _)
FreshUpTo(pieces, k) ==
    IF k = 0 THEN <<>> ELSE FreshUpTo(pieces, k - 1) \o Fresh(pieces, k)

Last(units, n) == SubSeq(units, Len(units) - n + 1, Len(units))

PiecesAsClaimed(pieces) ==
    /\ \A k \in 1..Len(pieces) : TokenCounter_count_tokens(pieces[k]) <= tc_max_tokens
    /\ \A k \in 2..Len(pieces) :
          /\ Len(PieceUnits(pieces[k])) >= split_overlap
          /\ SubSeq(PieceUnits(pieces[k]), 1, split_overlap)
                = Last(PieceUnits(pieces[k - 1]), split_overlap)
          /\ \A j \in 1..Len(Fresh(pieces, k)) :
                \A h \in 1..Len(PieceUnits(pieces[k - 1])) :
                    Fresh(pieces, k)[j] # PieceUnits(pieces[k - 1])[h]
    /\ FreshUpTo(pieces, Len(pieces)) = split_units

\* C23: split_by_tokens returns pieces of at most max_tokens tokens; every
\* piece after the first starts with exactly the last `overlap` tokens of the
\* piece before it and shares nothing else with it; without those leading
\* overlaps the pieces put together are the token sequence of the text.
C23_SplitPieces ==
    /\ [](tc_pc = "returned" => PiecesAsClaimed(tc_chunks))
    /\ (tc_pc = "loop") ~> (tc_pc = "returned")

\* C29: split_by_tokens terminates with a finite list of pieces for every
\* text, every max_tokens >= 1 and every overlap with 0 <= overlap <
\* max_tokens: a call that has entered its loop leaves it.
C29_SplitTerminates ==
    (tc_pc = "loop" /\ tc_max_tokens >= 1 /\ tc_overlap \in 0..(tc_max_tokens - 1))
        ~> (tc_pc = "returned")

-----------------------------------------------------------------------------
(* config.py: ConfigLoader.  A configuration dictionary is a function from   *)
(* keys to nodes; a node is a leaf [leaf |-> value] or a nested dictionary   *)
(* [items |-> dictionary].  A value written in a source is the name of the   *)
(* source ("global", "project", "env"), so that a loaded value tells where   *)
(* it came from.                                                             *)

MaxConfigCalls == 3

Providers == {"openai", "anthropic"}

EnvVars == {"OPENAI_API_KEY", "ANTHROPIC_API_KEY", "GIT_LLM_MODEL"}

Leaf(v) == [leaf |-> v]

Dict(items) == [items |-> items]

IsDict(node) == "items" \in DOMAIN node

\* a key written without a value: yaml.safe_load gives None
Null == Leaf("None")

\* a boolean as yaml.dump writes it and yaml.safe_load reads it back; a
\* string is written quoted where it would read as something else, and
\* comes back as the same string
YamlBool(b) == Leaf(IF b THEN "!!bool true" ELSE "!!bool false")

\* the dictionaries yaml.safe_load gives for a file written by `tag`
FileData(tag) ==
    LET api_keys_nodes == {Dict([p \in provs |-> Leaf(tag)]) : provs \in SUBSET Providers}
                              \cup {Null}
        llm_nodes ==
            {Dict([k \in keys |-> IF k = "default_model" THEN Leaf(tag) ELSE a]) :
                keys \in SUBSET {"default_model", "api_keys"}, a \in api_keys_nodes}
                \cup {Null}
        jira_nodes == {Dict([k \in keys |-> Leaf(tag)]) : keys \in SUBSET {"ticket_pattern"}}
                          \cup {Null}
    IN  {[k \in keys |-> IF k = "llm" THEN l ELSE j] :
            keys \in SUBSET {"llm", "jira"}, l \in llm_nodes, j \in jira_nodes}

RECURSIVE merge_configs(_, _)
\* lines 167-177
merge_configs(base, override) ==
    [key \in DOMAIN base \cup DOMAIN override |->
        IF key \in DOMAIN override
        THEN IF key \in DOMAIN base /\ IsDict(base[key]) /\ IsDict(override[key])
             THEN Dict(merge_configs(base[key].items, override[key].items))
             ELSE override[key]
        ELSE base[key]]

\* lines 126-165, for the variables of EnvVars
load_env_config ==
    LET api_keys ==
            [p \in {q \in Providers :
                        env[IF q = "openai" THEN "OPENAI_API_KEY" ELSE "ANTHROPIC_API_KEY"] # ""}
                |-> Leaf(env[IF p = "openai" THEN "OPENAI_API_KEY" ELSE "ANTHROPIC_API_KEY"])]
        llm_keys == (IF DOMAIN api_keys # {} THEN {"api_keys"} ELSE {})
                        \cup (IF env["GIT_LLM_MODEL"] # "" THEN {"default_model"} ELSE {})
    IN  IF llm_keys = {}
        THEN EmptyDict
        ELSE [k \in {"llm"} |->
                 Dict([f \in llm_keys |-> IF f = "api_keys"
                                          THEN Dict(api_keys)
                                          ELSE Leaf(env["GIT_LLM_MODEL"])])]

\* lines 182, 203: llm_data.get / jira_data.get on a section that is not a
\* dictionary raises AttributeError
create_raises(config_data) ==
    \/ "llm" \in DOMAIN config_data /\ ~IsDict(config_data["llm"])
    \/ "jira" \in DOMAIN config_data /\ ~IsDict(config_data["jira"])

\* lines 179-215: the fields the model follows.  api_keys is a dictionary
\* provider -> key, or the node Null when the merged data holds None there.
create_app_config(config_data) ==
    LET llm_data == IF "llm" \in DOMAIN config_data THEN config_data["llm"].items ELSE EmptyDict
        jira_data == IF "jira" \in DOMAIN config_data THEN config_data["jira"].items ELSE EmptyDict
    IN  [default_model |-> IF "default_model" \in DOMAIN llm_data
                           THEN llm_data["default_model"].leaf ELSE "gpt-4o",
         language |-> IF "language" \in DOMAIN llm_data
                      THEN llm_data["language"].leaf ELSE "en",
         api_keys |-> IF "api_keys" \in DOMAIN llm_data
                      THEN IF IsDict(llm_data["api_keys"])
                           THEN [p \in DOMAIN llm_data["api_keys"].items |->
                                    llm_data["api_keys"].items[p].leaf]
                           ELSE llm_data["api_keys"]
                      ELSE EmptyDict,
         enabled |-> IF "enabled" \in DOMAIN jira_data
                     THEN jira_data["enabled"] = YamlBool(TRUE) ELSE FALSE,
         ticket_pattern |-> IF "ticket_pattern" \in DOMAIN jira_data
                            THEN jira_data["ticket_pattern"].leaf ELSE "None"]

\* lines 94-111: config_data handed to _create_app_config
load_config ==
    LET from_global == IF global_file.exists THEN global_file.data ELSE EmptyDict
        from_project == IF project_file.exists
                        THEN merge_configs(from_global, project_file.data)
                        ELSE from_global
    IN  merge_configs(from_project, load_env_config)

LoadInit ==
    /\ RetryIdle
    /\ RateIdle
    /\ MRIdle
    /\ ChunkIdle
    /\ OptimizeIdle
    /\ GenerateIdle
    /\ TokenIdle
    /\ global_file \in {NoFile} \cup {[exists |-> TRUE, data |-> d] : d \in FileData("global")}
    /\ project_file \in {NoFile} \cup {[exists |-> TRUE, data |-> d] : d \in FileData("project")}
    /\ env \in [EnvVars -> {"", "env"}]
    /\ cf_pc = "ready"
    /\ app_config = EmptyDict
    /\ cf_calls = 0
    /\ last_set = EmptyDict
    /\ got = EmptyDict

\* ConfigLoader(): lines 84-87, 113
LoadConfig ==
    /\ cf_pc = "ready"
    /\ IF create_raises(load_config)
       THEN app_config' = EmptyDict /\ cf_pc' = "raised"
       ELSE app_config' = create_app_config(load_config) /\ cf_pc' = "loaded"
    /\ UNCHANGED <<global_file, project_file, env, cf_calls, last_set, got>>
    /\ UNCHANGED <<rtVars, rlVars, mrVars, ckVars, opVars, gnVars, tkVars>>

\* lines 349-351: reload() loads again and replaces _config; when the load
\* raises the assignment does not happen
Reload ==
    /\ cf_pc = "loaded"
    /\ cf_calls < MaxConfigCalls
    /\ cf_calls' = cf_calls + 1
    /\ app_config' = IF create_raises(load_config)
                     THEN app_config ELSE create_app_config(load_config)
    /\ last_set' = [k \in DOMAIN last_set |-> ""]
    /\ got' = [op |-> "reload", key |-> "", raised |-> create_raises(load_config),
               value |-> [type |-> "NoneType", str |-> "", bool |-> FALSE]]
    /\ UNCHANGED <<global_file, project_file, env, cf_pc>>
    /\ UNCHANGED <<rtVars, rlVars, mrVars, ckVars, opVars, gnVars, tkVars>>

LoadNext == LoadConfig \/ Reload

SpecLoad == LoadInit /\ [][LoadNext]_vars

-----------------------------------------------------------------------------
(* Claims about the loading of the configuration *)

Sources == <<"env", "project", "global">>

\* the dictionary a source contributes
SourceData(src) ==
    IF src = "env" THEN load_env_config
    ELSE IF src = "project" THEN project_file.data
    ELSE global_file.data

\* the source defines the setting section.name (section.name.sub for a
\* nested one)
Defines(src, section, name, sub) ==
    LET d == SourceData(src)
    IN  /\ section \in DOMAIN d
        /\ IsDict(d[section])
        /\ name \in DOMAIN d[section].items
        /\ IF sub = ""
           THEN d[section].items[name] # Null
           ELSE /\ IsDict(d[section].items[name])
                /\ sub \in DOMAIN d[section].items[name].items

\* the highest-priority source that defines the setting, "" if none does
Winner(section, name, sub) ==
    IF \E i \in 1..3 : Defines(Sources[i], section, name, sub)
    THEN Sources[CHOOSE i \in 1..3 :
                    /\ Defines(Sources[i], section, name, sub)
                    /\ \A h \in 1..(i - 1) : ~Defines(Sources[h], section, name, sub)]
    ELSE ""

\* C24: sources are merged by priority, environment over project file over
\* global file over defaults: the configuration loads, every setting has the
\* value of the highest-priority source that defines it, and an API key a
\* higher source does not define keeps the value a lower source gives it.
C24_MergeByPriority ==
    /\ cf_pc # "raised"
    /\ cf_pc = "loaded" =>
        /\ app_config.default_model
              = (IF Winner("llm", "default_model", "") = ""
                 THEN "gpt-4o" ELSE Winner("llm", "default_model", ""))
        /\ app_config.ticket_pattern
              = (IF Winner("jira", "ticket_pattern", "") = ""
                 THEN "None" ELSE Winner("jira", "ticket_pattern", ""))
        /\ \A p \in Providers :
              IF Winner("llm", "api_keys", p) = ""
              THEN p \notin DOMAIN app_config.api_keys
              ELSE /\ p \in DOMAIN app_config.api_keys
                   /\ app_config.api_keys[p] = Winner("llm", "api_keys", p)

-----------------------------------------------------------------------------
(* config.py: ConfigLoader.set_value, get_value, save_config and reload on   *)
(* the loaded configuration, and the overrides execute_commit writes into    *)
(* it.  A value get_value returns is [type, str, bool].                      *)

ConfigKeys ==
    {"llm.default_model", "llm.language", "llm.api_keys.openai", "jira.enabled",
     "jira.branch_regex"}

ConfigValues == {"True", "TRUE", "on", "off"}

PyStr(v) == [type |-> "str", str |-> v, bool |-> FALSE]

PyBool(b) == [type |-> "bool", str |-> "", bool |-> b]

PyNone == [type |-> "NoneType", str |-> "", bool |-> FALSE]

\* value.lower(), on the values of the model
Lower(v) == IF v \in {"True", "TRUE"} THEN "true" ELSE v

\* ConfigLoader() with no configuration file and an empty environment
ConfigInit ==
    /\ RetryIdle
    /\ RateIdle
    /\ MRIdle
    /\ ChunkIdle
    /\ OptimizeIdle
    /\ GenerateIdle
    /\ TokenIdle
    /\ global_file = NoFile
    /\ project_file = NoFile
    /\ env = [v \in EnvVars |-> ""]
    /\ cf_pc = "loaded"
    /\ app_config = create_app_config(load_config)
    /\ cf_calls = 0
    /\ last_set = [k \in ConfigKeys |-> ""]
    /\ got = [op |-> "none", key |-> "", raised |-> FALSE, value |-> PyNone]

\* lines 269-307; a key no branch handles raises ConfigError (line 307)
SetValue(key, value) ==
    /\ cf_pc = "loaded"
    /\ cf_calls < MaxConfigCalls
    /\ cf_calls' = cf_calls + 1
    /\ last_set' = [last_set EXCEPT ![key] = value]
    /\ app_config' =
          IF key = "llm.default_model"
          THEN [app_config EXCEPT !.default_model = value]
          ELSE IF key = "llm.language"
          THEN [app_config EXCEPT !.language = value]
          ELSE IF key = "llm.api_keys.openai"
          THEN [app_config EXCEPT !.api_keys =
                   [p \in DOMAIN app_config.api_keys \cup {"openai"} |->
                       IF p = "openai" THEN value ELSE app_config.api_keys[p]]]
          ELSE IF key = "jira.enabled"
          THEN [app_config EXCEPT !.enabled = (Lower(value) \in {"true", "1", "yes", "on"})]
          ELSE app_config
    /\ got' = [op |-> "set", key |-> key,
               raised |-> (key \notin {"llm.default_model", "llm.language",
                                       "llm.api_keys.openai", "jira.enabled"}),
               value |-> PyNone]
    /\ UNCHANGED <<global_file, project_file, env, cf_pc>>
    /\ UNCHANGED <<rtVars, rlVars, mrVars, ckVars, opVars, gnVars, tkVars>>

\* lines 309-347; a key no branch handles raises ConfigError (line 347)
GetValue(key) ==
    /\ cf_pc = "loaded"
    /\ cf_calls < MaxConfigCalls
    /\ cf_calls' = cf_calls + 1
    /\ got' = [op |-> "get", key |-> key,
               raised |-> (key \notin {"llm.default_model", "llm.language",
                                       "llm.api_keys.openai", "jira.enabled"}),
               value |->
                   IF key = "llm.default_model" THEN PyStr(app_config.default_model)
                   ELSE IF key = "llm.language" THEN PyStr(app_config.language)
                   ELSE IF key = "llm.api_keys.openai"
                   THEN (IF "openai" \in DOMAIN app_config.api_keys
                         THEN PyStr(app_config.api_keys["openai"]) ELSE PyNone)
                   ELSE IF key = "jira.enabled" THEN PyBool(app_config.enabled)
                   ELSE PyNone]
    /\ UNCHANGED <<global_file, project_file, env, cf_pc, app_config, last_set>>
    /\ UNCHANGED <<rtVars, rlVars, mrVars, ckVars, opVars, gnVars, tkVars>>

\* lines 225-251: the dictionary save_config dumps; an empty or None api_keys
\* and a None ticket_pattern are left out
config_dict ==
    LET llm_keys == {"default_model", "language"}
                        \cup (IF app_config.api_keys # Null /\ DOMAIN app_config.api_keys # {}
                              THEN {"api_keys"} ELSE {})
        jira_keys == {"enabled"}
                        \cup (IF app_config.ticket_pattern # "None"
                              THEN {"ticket_pattern"} ELSE {})
    IN  [section \in {"llm", "jira"} |->
            IF section = "llm"
            THEN Dict([k \in llm_keys |->
                          IF k = "default_model" THEN Leaf(app_config.default_model)
                          ELSE IF k = "language" THEN Leaf(app_config.language)
                          ELSE Dict([p \in DOMAIN app_config.api_keys |->
                                        Leaf(app_config.api_keys[p])])])
            ELSE Dict([k \in jira_keys |->
                          IF k = "enabled" THEN YamlBool(app_config.enabled)
                          ELSE Leaf(app_config.ticket_pattern)])]

\* lines 217-267: save_config writes the global configuration file, or the
\* file at the path given
SaveConfig(path) ==
    /\ cf_pc = "loaded"
    /\ cf_calls < MaxConfigCalls
    /\ cf_calls' = cf_calls + 1
    /\ IF path = "global"
       THEN /\ global_file' = [exists |-> TRUE, data |-> config_dict]
            /\ UNCHANGED project_file
       ELSE /\ project_file' = [exists |-> TRUE, data |-> config_dict]
            /\ UNCHANGED global_file
    /\ got' = [op |-> "save", key |-> "", raised |-> FALSE, value |-> PyNone]
    /\ UNCHANGED <<env, cf_pc, app_config, last_set>>
    /\ UNCHANGED <<rtVars, rlVars, mrVars, ckVars, opVars, gnVars, tkVars>>

\* commit_cmd.py 13-17: the `model` and `language` arguments of execute_commit;
\* "" stands for None and for the empty string, which `if model:` treats alike
CommitOverrides == ConfigValues \cup {""}

\* commit_cmd.py 28-35: execute_commit takes the loaded configuration from
\* get_config() (config.py 359-361: the ConfigLoader's own AppConfig object)
\* and assigns the command line's model and language to it; nothing else in
\* execute_commit writes to the configuration.  An overridden key no longer
\* holds the value set_value gave it.
ExecuteCommit(model, language) ==
    /\ cf_pc = "loaded"
    /\ cf_calls < MaxConfigCalls
    /\ cf_calls' = cf_calls + 1
    /\ app_config' =
          [app_config EXCEPT
              !.default_model = IF model # "" THEN model ELSE @,
              !.language = IF language # "" THEN language ELSE @]
    /\ last_set' =
          [k \in DOMAIN last_set |->
              IF \/ k = "llm.default_model" /\ model # ""
                 \/ k = "llm.language" /\ language # ""
              THEN "" ELSE last_set[k]]
    /\ got' = [op |-> "commit", key |-> "", raised |-> FALSE, value |-> PyNone]
    /\ UNCHANGED <<global_file, project_file, env, cf_pc>>
    /\ UNCHANGED <<rtVars, rlVars, mrVars, ckVars, opVars, gnVars, tkVars>>

ConfigNext ==
    \/ \E key \in ConfigKeys, value \in ConfigValues : SetValue(key, value)
    \/ \E key \in ConfigKeys : GetValue(key)
    \/ \E path \in {"global", "project"} : SaveConfig(path)
    \/ Reload
    \/ \E model, language \in CommitOverrides : ExecuteCommit(model, language)

SpecConfig == ConfigInit /\ [][ConfigNext]_vars

-----------------------------------------------------------------------------
(* Claims about set_value and get_value *)

\* C25: for llm.default_model, llm.language, llm.api_keys.<provider>,
\* jira.enabled and jira.branch_regex, get_value(key) returns the value most
\* recently set for that key; for jira.enabled the strings 'true', 'True',
\* '1', 'yes', 'on' read back as True and every other string as False.
C25_GetAfterSet ==
    (got.op = "get" /\ last_set[got.key] # "") =>
        /\ ~got.raised
        /\ got.value = IF got.key = "jira.enabled"
                       THEN PyBool(last_set[got.key] \in {"true", "True", "1", "yes", "on"})
                       ELSE PyStr(last_set[got.key])

-----------------------------------------------------------------------------
(* More claims about generate_commit_message *)

\* C26: aggressive optimization is applied only on the non-chunked path:
\* whenever the operation takes the chunked path, the text handed to
\* chunk_diff is the output of optimize_diff called with aggressive = false.
C26_ChunkedPathIsLightlyOptimized ==
    (GenDispatched /\ chunker_calls > 0) =>
        /\ ~aggressive
        /\ optimized = optimize_diff(FALSE).optimized_lines
        /\ diff = [j \in 1..Len(optimized) |-> Plain(optimized[j])]

-----------------------------------------------------------------------------
(* More claims about the map-reduce *)

\* C27: the reduce call is dispatched only after the map call of every chunk
\* has finished: in the step that builds the reduce prompt no map call is
\* running or waiting, and all N slots of the summary sequence are filled,
\* each with the summary or the placeholder of its own chunk.
C27_ReduceAfterAllMaps ==
    [][reduce_units' # reduce_units =>
          /\ Running = {}
          /\ queue = <<>>
          /\ Len(reduce_input') = n_docs
          /\ \A c \in Chunks : reduce_input'[c] \in {Summary(c), Placeholder(c)}]_vars

\* the reduce call is dispatched over three chunks; in the pool the map call
\* of chunk 2 was absorbed into a placeholder and chunk 1 finished last
C27_Witness ==
    /\ pc = "seq_reduce"
    /\ n_docs = 3
    /\ reduce_units = 1
    /\ main_attempt = 0
    /\ map_failed[2]
    /\ finished_order[3] = 1
    /\ Len(reduce_input) = 3

-----------------------------------------------------------------------------
(* Claims about the overlap of token-level splitting *)

\* the line lists chunk_diff hands to _split_by_tokens for this diff: file
\* sections over the budget without hunk marker, hunk chunks over the budget
TokenSplitInputs ==
    LET big == {n \in 1..Len(FileSections) :
                    count_tokens(JoinLen(FileSections[n])) > chunk_size}
    IN  {FileSections[n] : n \in {m \in big : split_file_by_hunks(FileSections[m]) = <<>>}}
        \cup UNION {{split_file_by_hunks(FileSections[n])[h].lines :
                        h \in {g \in 1..Len(split_file_by_hunks(FileSections[n])) :
                                  ChunkTokens(split_file_by_hunks(FileSections[n])[g])
                                      > chunk_size}} : n \in big}

\* how many leading lines of a piece are copies from the previous piece
OverlapCount(lines) ==
    Cardinality({j \in 1..Len(lines) : lines[j].src = "overlap"})

RECURSIVE SumLineTokens(_)
SumLineTokens(lines) ==
    IF lines = <<>> THEN 0 ELSE line_tokens(Head(lines)) + SumLineTokens(Tail(lines))

\* input lines consumed by the first k pieces
RECURSIVE Consumed(_, _)
Consumed(pieces, k) ==
    IF k = 0 THEN 0
    ELSE Consumed(pieces, k - 1) + Len(pieces[k].lines) - OverlapCount(pieces[k].lines)

OverlapAsClaimed(input, pieces, k) ==
    LET prev == pieces[k - 1].lines
        cur == pieces[k].lines
        n == OverlapCount(cur)
    IN  /\ n <= Len(prev)
        /\ \A j \in 1..n : cur[j].src = "overlap" /\ cur[j].i = prev[Len(prev) - n + j].i
        /\ SumLineTokens(SubSeq(cur, 1, n)) <= chunk_overlap
        /\ (Len(prev) > 1 /\ chunk_overlap > 0) =>
              \/ n = Len(prev)
              \/ SumLineTokens(SubSeq(cur, 1, n)) + line_tokens(prev[Len(prev) - n])
                     > chunk_overlap
        /\ (Len(prev) = 1 \/ chunk_overlap = 0) => n = 0
        /\ Len(cur) > n
        /\ cur[n + 1] = input[Consumed(pieces, k - 1) + 1]

\* the pieces are in the returned list, one after the other
InReturnedList(pieces) ==
    \E off \in 0..(Len(chunks) - Len(pieces)) :
        \A k \in 1..Len(pieces) : chunks[off + k].lines = pieces[k].lines

\* C28: in token-level splitting every piece after the first starts with a
\* run of the last lines of the previous piece whose summed token count is at
\* most chunk_overlap and which cannot be extended by one more line within
\* it, followed by the next line not yet consumed; the overlap is empty when
\* the previous piece has one line or chunk_overlap is zero.
C28_OverlapSeed ==
    ck_pc = "done" =>
        \A input \in TokenSplitInputs :
            LET pieces == split_by_tokens(input, "token-based")
            IN  /\ InReturnedList(pieces)
                /\ \A k \in 2..Len(pieces) : OverlapAsClaimed(input, pieces, k)

\* a piece of three lines is followed by a piece that starts with a copy of
\* its last two lines: the third would exceed the overlap budget
C28_Witness ==
    /\ ck_pc = "done"
    /\ chunk_overlap = 5
    /\ \E k \in 2..Len(chunks) :
          /\ IsTokenSplit(chunks[k]) /\ IsTokenSplit(chunks[k - 1])
          /\ Len(chunks[k - 1].lines) = 3
          /\ OverlapCount(chunks[k].lines) = 2
          /\ chunks[k].lines[1].i = chunks[k - 1].lines[2].i
          /\ chunks[k].lines[2].i = chunks[k - 1].lines[3].i
          /\ chunks[k].lines[3].src = "orig"


-----------------------------------------------------------------------------
(* termination of the map-reduce operation *)

\* the steps of the thread that called _parallel_map_reduce: it submits,
\* leaves the pool's `with` block once the pool is joined and builds the
\* combine prompt.  The thread is never suspended for good, so a step that
\* stays possible is taken.
MainThreadSteps ==
    \/ ParStart
    \/ ParSubmit
    \/ AsCompleted
    \/ ParJoinAndFallBack
    \/ SeqStartReduce

\* the map call in flight for chunk c ends, by returning or by raising
MapCallEnds(c) ==
    /\ c \in Chunks
    /\ WorkerCallReturns(c) \/ WorkerCallRaises(c)

\* the call in flight on the calling thread ends, by returning or by raising
MainCallEnds ==
    \/ SeqMapReturns
    \/ SeqMapRaises
    \/ SeqReduceReturns
    \/ SeqReduceRaises

\* the pool size is read from max_parallel_chunks; with Ollama configured the
\* twin setting gives the same range of sizes and the same steps
LiveInit == MRInit /\ ~ollama /\ ollama_max_parallel_chunks = 1

\* line 366-372: a ThreadPoolExecutor thread that is free takes the next work
\* item of the queue; every completion call eventually returns or raises
SpecLive ==
    /\ LiveInit /\ [][Next]_vars
    /\ WF_vars(MainThreadSteps)
    /\ WF_vars(WorkerTake)
    /\ \A c \in 1..MaxChunks : WF_vars(MapCallEnds(c))
    /\ WF_vars(MainCallEnds)

\* C30: when every completion call eventually returns or raises, the operation
\* eventually ends, returning a message or raising ApiError, whatever the
\* calls do and however the map workers interleave; when it ends every
\* submitted chunk has run to its end, so no worker stays blocked and the
\* pool join is never left waiting.
C30_OperationEnds ==
    /\ <>Terminated
    /\ [](Terminated => /\ (pc = "done") <=> (result = "message")
                        /\ \A c \in Chunks : task[c] = "finished")

\* the operation returned a message from the sequential pass, which it entered
\* once the pool was joined; the pool had fewer workers than chunks, its map
\* calls finished out of order and one of them raised
C30_Witness ==
    /\ pc = "done"
    /\ result = "message"
    /\ max_workers < n_docs
    /\ AllFinished
    /\ Len(finished_order) = n_docs
    /\ finished_order[1] # 1
    /\ \E c \in Chunks : map_failed[c]

====
